---- MODULE Spec2Model ----
(***************************************************************************)
(* Request handlers of the user management system (login, create-user,     *)
(* get-own-info, list-users) in front of the Cognito identity provider,    *)
(* with the token decoding and role policy they share.                     *)
(*                                                                         *)
(* Strings the code inspects are sequences of lexemes: a header is the     *)
(* sequence of its pieces ("Bearer ", ".", base64 groups), a JSON text is  *)
(* the sequence of its JSON lexemes.  startsWith, replace, split, base64   *)
(* decoding and JSON.parse are computed on those sequences.                *)
(***************************************************************************)
EXTENDS Naturals, Sequences, FiniteSets, TLC

VARIABLES
    inv,            \* invocation slot -> the state of the handler invocation in it
    directory,      \* the Cognito user pool: email -> user attributes
    authHeader,     \* argument of a direct call of validateTokenAndRole
    requiredRoles,  \* argument of a direct call of validateTokenAndRole
    authResult,     \* its result, or Pending before the call
    validator,      \* the composite validator of a direct call
    requestBody,    \* its argument: a parsed request body
    validationResult \* its result, or Pending before the call

vars == <<inv, directory, authHeader, requiredRoles, authResult,
          validator, requestBody, validationResult>>

(***************************************************************************)
(* Bounds                                                                  *)
(***************************************************************************)
MaxSegs == 3        \* most dot-separated segments of a generated token
MaxInv == 2         \* invocation slots

(***************************************************************************)
(* JavaScript values                                                       *)
(***************************************************************************)
Undefined == "undefined"      \* the value undefined (an absent header, field, claim)
Pending == [pending |-> TRUE]

\* A string the code takes apart (a header, a token, a body) is a sequence of
\* lexemes; NoString is such a variable holding undefined or null.
NoString == <<Undefined>>

Truthy(v) == v # Undefined /\ v # ""
TruthyText(s) == s # NoString /\ s # <<>>

\* a || b
Or(a, b) == IF Truthy(a) THEN a ELSE b
OrText(a, b) == IF TruthyText(a) THEN a ELSE b

Ret(v) == [threw |-> FALSE, val |-> v]
Throw(name, message) == [threw |-> TRUE, name |-> name, message |-> message]

\* The message node gives the TypeError of reading a property of null.
NullReadMessage(prop) == "Cannot read properties of null (reading '" \o prop \o "')"

(***************************************************************************)
(* JSON texts: sequences of lexemes.  A member lexeme is one "key":value   *)
(* pair, written here as its JSON text.                                    *)
(***************************************************************************)
MemberTable ==
    [ m_email_admin   |-> <<"email", "admin@x.io">>,
      m_email_new     |-> <<"email", "new@x.io">>,
      m_email_bad     |-> <<"email", "bad">>,
      m_role_Admin    |-> <<"custom:user_role", "Admin">>,
      m_role_Super    |-> <<"custom:user_role", "SuperAdmin">>,
      m_role_User     |-> <<"custom:user_role", "User">>,
      m_role_empty    |-> <<"custom:user_role", "">>,
      m_given         |-> <<"given_name", "Ada">>,
      m_family        |-> <<"family_name", "Byron">>,
      m_alg           |-> <<"alg", "RS256">>,
      b_role_Admin    |-> <<"role", "Admin">>,
      b_role_Super    |-> <<"role", "SuperAdmin">>,
      b_role_User     |-> <<"role", "User">>,
      b_role_bad      |-> <<"role", "Guest">>,
      b_first         |-> <<"firstName", "Ada">>,
      b_last          |-> <<"lastName", "Byron">>,
      b_temp_ok       |-> <<"temporaryPassword", "TempPass123!">>,
      b_temp_short    |-> <<"temporaryPassword", "short">>,
      b_temp_number   |-> <<"temporaryPassword", "number 1234">>,
      b_pass_ok       |-> <<"password", "TempPass123!">>,
      b_pass_wrong    |-> <<"password", "WrongPass123!">> ]

MemberLexemes == DOMAIN MemberTable

\* The values of the members that are JSON numbers (the lexeme
\* "temporaryPassword":1234); every other value is a JSON string.
JSONNumbers == {"number 1234"}
IsString(v) == v \notin JSONNumbers
MemberKey(m) == MemberTable[m][1]
MemberValue(m) == MemberTable[m][2]

\* The inner part of an object text: members separated by commas.
RECURSIVE IsMemberList(_)
IsMemberList(text) ==
    IF Len(text) = 0 THEN FALSE
    ELSE IF Len(text) = 1 THEN text[1] \in MemberLexemes
    ELSE /\ Len(text) >= 3
         /\ text[1] \in MemberLexemes
         /\ text[2] = ","
         /\ IsMemberList(SubSeq(text, 3, Len(text)))

\* The object a member list denotes; a repeated key keeps its last value.
RECURSIVE ObjectOf(_, _)
ObjectOf(text, acc) ==
    IF Len(text) = 0 THEN acc
    ELSE IF text[1] = "," THEN ObjectOf(Tail(text), acc)
    ELSE LET k == MemberKey(text[1])
             v == MemberValue(text[1])
         IN ObjectOf(Tail(text),
                     [x \in (DOMAIN acc) \cup {k} |-> IF x = k THEN v ELSE acc[x]])

EmptyObject == [x \in {} |-> ""]

\* JSON.parse: a value [kind, obj], or a thrown SyntaxError.
JSONParse(text) ==
    IF text = <<"null">> THEN Ret([kind |-> "null"])
    ELSE IF text = <<"1">> THEN Ret([kind |-> "number"])
    ELSE IF Len(text) >= 2 /\ text[1] = "{" /\ text[Len(text)] = "}"
            /\ (Len(text) = 2 \/ IsMemberList(SubSeq(text, 2, Len(text) - 1)))
         THEN Ret([kind |-> "object",
                   obj |-> ObjectOf(SubSeq(text, 2, Len(text) - 1), EmptyObject)])
    ELSE Throw("SyntaxError", "Unexpected token in JSON")

\* value[prop]: a property of a parsed value.  Reading a property of null throws;
\* a number has no own properties.
GetProp(value, prop) ==
    IF value.kind = "null" THEN Throw("TypeError", NullReadMessage(prop))
    ELSE IF value.kind = "object" /\ prop \in DOMAIN value.obj THEN Ret(value.obj[prop])
    ELSE Ret(Undefined)

(***************************************************************************)
(* Base64.  A group is the base64 text of one JSON lexeme; any other       *)
(* symbol is not base64 and Buffer.from(.., 'base64') skips it.            *)
(***************************************************************************)
JSONLexemes == {"{", "}", ",", "null", "1"} \cup MemberLexemes

Base64Encode(lexeme) == "b64(" \o lexeme \o ")"

Base64Groups == {Base64Encode(l) : l \in JSONLexemes}

Unbase64(group) == CHOOSE l \in JSONLexemes : Base64Encode(l) = group

\* Buffer.from(text, 'base64').toString()
RECURSIVE Base64Decode(_)
Base64Decode(text) ==
    IF Len(text) = 0 THEN <<>>
    ELSE IF text[1] \in Base64Groups
         THEN <<Unbase64(text[1])>> \o Base64Decode(Tail(text))
         ELSE Base64Decode(Tail(text))

RECURSIVE Base64EncodeText(_)
Base64EncodeText(json) ==
    IF Len(json) = 0 THEN <<>>
    ELSE <<Base64Encode(json[1])>> \o Base64EncodeText(Tail(json))

(***************************************************************************)
(* String operations on headers and tokens                                 *)
(***************************************************************************)
BearerPrefix == "Bearer "

\* s.startsWith(prefix)
StartsWith(s, prefix) == Len(s) >= 1 /\ s[1] = prefix

\* s.replace(piece, ''): the first occurrence of piece is removed.
RECURSIVE ReplaceFirst(_, _)
ReplaceFirst(s, piece) ==
    IF Len(s) = 0 THEN <<>>
    ELSE IF s[1] = piece THEN Tail(s)
    ELSE <<s[1]>> \o ReplaceFirst(Tail(s), piece)

\* s.split('.'): the segments between the dots, at least one.
RECURSIVE Split(_)
Split(s) ==
    IF \A k \in 1..Len(s) : s[k] # "." THEN <<s>>
    ELSE LET d == CHOOSE k \in 1..Len(s) : s[k] = "." /\ \A j \in 1..(k - 1) : s[j] # "."
         IN <<SubSeq(s, 1, d - 1)>> \o Split(SubSeq(s, d + 1, Len(s)))

\* a[k] of a JavaScript array: undefined past its end.
At(a, k) == IF k <= Len(a) THEN a[k] ELSE NoString

(***************************************************************************)
(* src/utils/auth.ts                                                       *)
(***************************************************************************)
NoTokenMessage == "No valid authorization token provided"
InvalidTokenMessage == "Invalid token format"

\* extractTokenFromHeader checking only that a header is present.
extractTokenFromHeader_NoPrefixCheck(header) ==
    IF ~TruthyText(header)
    THEN Throw("Error", NoTokenMessage)
    ELSE Ret(ReplaceFirst(header, BearerPrefix))

extractTokenFromHeader(header) ==
    IF ~TruthyText(header) \/ ~StartsWith(header, BearerPrefix)
    THEN Throw("Error", NoTokenMessage)
    ELSE Ret(ReplaceFirst(header, BearerPrefix))

\* decodeJWTPayload insisting on a three-segment token.
decodeJWTPayload_ThreeSegments(token) ==
    LET segs == Split(token)
        decoded == IF Len(segs) # 3
                   THEN Throw("Error", "Token must have three segments")
                   ELSE JSONParse(Base64Decode(segs[2]))
    IN IF decoded.threw THEN Throw("Error", "Invalid token format") ELSE decoded

\* decodeJWTPayload without the catch that renames the failure.
decodeJWTPayload_NoCatch(token) ==
    LET payload == At(Split(token), 2)
    IN IF payload = NoString
       THEN Throw("TypeError", "The first argument must be of type string")
       ELSE JSONParse(Base64Decode(payload))

\* Anything thrown inside the try (Buffer.from of undefined, JSON.parse) is
\* rethrown as 'Invalid token format'; a parsed null or number is returned.
decodeJWTPayload(token) ==
    LET payload == At(Split(token), 2)
        decoded == IF payload = NoString
                   THEN Throw("TypeError", "The first argument must be of type string")
                   ELSE JSONParse(Base64Decode(payload))
    IN IF decoded.threw THEN Throw("Error", InvalidTokenMessage) ELSE decoded

\* extractUserFromToken without the default role.
extractUserFromToken_NoDefault(header) ==
    LET token == extractTokenFromHeader(header) IN
    IF token.threw THEN token
    ELSE LET payload == decodeJWTPayload(token.val) IN
         IF payload.threw THEN payload
         ELSE LET email == GetProp(payload.val, "email") IN
              IF email.threw THEN email
              ELSE Ret([email |-> email.val,
                        role |-> GetProp(payload.val, "custom:user_role").val,
                        firstName |-> GetProp(payload.val, "given_name").val,
                        lastName |-> GetProp(payload.val, "family_name").val])

extractUserFromToken(header) ==
    LET token == extractTokenFromHeader(header) IN
    IF token.threw THEN token
    ELSE LET payload == decodeJWTPayload(token.val) IN
         IF payload.threw THEN payload
         ELSE LET email == GetProp(payload.val, "email") IN
              IF email.threw THEN email
              ELSE Ret([email |-> email.val,
                        role |-> Or(GetProp(payload.val, "custom:user_role").val, "User"),
                        firstName |-> GetProp(payload.val, "given_name").val,
                        lastName |-> GetProp(payload.val, "family_name").val])

\* isAuthorized ranking SuperAdmin above Admin.
isAuthorized_Hierarchical(userRole, allowedRoles) ==
    \E k \in 1..Len(allowedRoles) :
        \/ allowedRoles[k] = userRole
        \/ allowedRoles[k] = "Admin" /\ userRole = "SuperAdmin"

\* allowedRoles.includes(userRole)
isAuthorized(userRole, allowedRoles) ==
    \E k \in 1..Len(allowedRoles) : allowedRoles[k] = userRole

\* roles.join(', ')
RECURSIVE JoinComma(_)
JoinComma(roles) ==
    IF Len(roles) = 0 THEN ""
    ELSE IF Len(roles) = 1 THEN roles[1]
    ELSE roles[1] \o ", " \o JoinComma(Tail(roles))

AccessDeniedMessage(roles) == "Access denied. Required roles: " \o JoinComma(roles)

\* validateTokenAndRole checking the role also against an empty list.
validateTokenAndRole_EmptyDenies(header, roles) ==
    LET user == extractUserFromToken(header) IN
    IF user.threw THEN [isValid |-> FALSE, error |-> user.message]
    ELSE IF ~isAuthorized(user.val.role, roles)
         THEN [isValid |-> FALSE, error |-> AccessDeniedMessage(roles)]
         ELSE [isValid |-> TRUE, user |-> user.val]

\* validateTokenAndRole without the role check.
validateTokenAndRole_NoRoleCheck(header, roles) ==
    LET user == extractUserFromToken(header) IN
    IF user.threw THEN [isValid |-> FALSE, error |-> user.message]
    ELSE [isValid |-> TRUE, user |-> user.val]

validateTokenAndRole(header, roles) ==
    LET user == extractUserFromToken(header) IN
    IF user.threw THEN [isValid |-> FALSE, error |-> user.message]
    ELSE IF Len(roles) > 0 /\ ~isAuthorized(user.val.role, roles)
         THEN [isValid |-> FALSE, error |-> AccessDeniedMessage(roles)]
         ELSE [isValid |-> TRUE, user |-> user.val]

(***************************************************************************)
(* Tokens and headers of the inputs                                        *)
(***************************************************************************)
ClaimsText(members) == Base64EncodeText(<<"{">> \o members \o <<"}">>)

SegAdmin == ClaimsText(<<"m_email_admin", ",", "m_role_Admin", ",", "m_given", ",", "m_family">>)
SegAdminBare == ClaimsText(<<"m_email_admin", ",", "m_role_Admin">>)   \* no names
SegSuper == ClaimsText(<<"m_email_admin", ",", "m_role_Super">>)
SegUser == ClaimsText(<<"m_email_admin", ",", "m_role_User">>)
SegNoRole == ClaimsText(<<"m_email_new">>)
SegEmptyRole == ClaimsText(<<"m_email_new", ",", "m_role_empty">>)
SegAlg == ClaimsText(<<"m_alg">>)                        \* a JOSE header
SegNull == Base64EncodeText(<<"null">>)
SegNumber == Base64EncodeText(<<"1">>)
SegTruncated == Base64EncodeText(<<"{", "m_email_admin", ",">>)   \* not JSON
SegSignature == <<"!", "!">>                             \* no base64 group at all
SegLenient == <<"!">> \o SegAdmin                        \* stray symbol, then claims
SegEmpty == <<>>

RECURSIVE JoinDots(_)
JoinDots(segs) ==
    IF Len(segs) = 1 THEN segs[1]
    ELSE segs[1] \o <<".">> \o JoinDots(Tail(segs))

Bearer(segs) == <<BearerPrefix>> \o JoinDots(segs)

\* Segment texts of the generated tokens.
TokenSegs ==
    {SegAdmin, SegSuper, SegUser, SegNoRole, SegEmptyRole, SegNull, SegNumber,
     SegTruncated, SegSignature, SegLenient, SegEmpty}

SegLists(n) == UNION {[1..k -> TokenSegs] : k \in 1..n}

\* What may stand before the token: the prefix, another scheme word, nothing.
Prefixes == {<<BearerPrefix>>, <<"bearer ">>, <<>>}

PolicyHeaders ==
    {NoString} \cup {p \o JoinDots(segs) : p \in Prefixes, segs \in SegLists(MaxSegs)}

PolicyRoleLists ==
    {<<>>, <<"Admin">>, <<"SuperAdmin">>, <<"User">>, <<"Admin", "SuperAdmin">>}

(***************************************************************************)
(* src/utils/response.ts                                                   *)
(***************************************************************************)
AllowedHeadersList == "Content-Type,X-Amz-Date,Authorization,X-Api-Key,X-Amz-Security-Token"
DefaultAllowedMethods == "GET,POST,OPTIONS"

\* JSON.stringify(body) leaves out a member whose value is undefined.
Stringify(body) ==
    IF "error" \in DOMAIN body /\ body.error = Undefined
    THEN [k \in (DOMAIN body) \ {"error"} |-> body[k]]
    ELSE body

\* createResponse leaving the CORS origin off the error responses.
createResponse_NoCorsOnError(statusCode, body, allowedMethods) ==
    [statusCode |-> statusCode,
     headers |-> [ContentType |-> "application/json",
                  AccessControlAllowOrigin |-> IF statusCode >= 400 THEN "" ELSE "*",
                  AccessControlAllowHeaders |-> AllowedHeadersList,
                  AccessControlAllowMethods |-> allowedMethods],
     body |-> Stringify(body)]

createResponse(statusCode, body, allowedMethods) ==
    [statusCode |-> statusCode,
     headers |-> [ContentType |-> "application/json",
                  AccessControlAllowOrigin |-> "*",
                  AccessControlAllowHeaders |-> AllowedHeadersList,
                  AccessControlAllowMethods |-> allowedMethods],
     body |-> Stringify(body)]

\* createCorsResponse answering 204 without a body.
createCorsResponse_NoContent(allowedMethods) ==
    createResponse(204, [success |-> TRUE, message |-> ""], allowedMethods)

createCorsResponse(allowedMethods) ==
    createResponse(200, [success |-> TRUE, message |-> "CORS preflight successful"],
                   allowedMethods)

createMethodNotAllowedResponse(allowedMethod) ==
    createResponse(405, [success |-> FALSE, message |-> "Method not allowed",
                         error |-> "Only " \o allowedMethod \o " method is supported"],
                   DefaultAllowedMethods)

\* createValidationErrorResponse without the error member.
createValidationErrorResponse_NoError(error) ==
    createResponse(400, [success |-> FALSE, message |-> "Validation failed"],
                   DefaultAllowedMethods)

createValidationErrorResponse(error) ==
    createResponse(400, [success |-> FALSE, message |-> "Validation failed", error |-> error],
                   DefaultAllowedMethods)

createAuthErrorResponse(error) ==
    createResponse(401, [success |-> FALSE, message |-> "Authentication required",
                         error |-> error],
                   DefaultAllowedMethods)

createAuthorizationErrorResponse(error) ==
    createResponse(403, [success |-> FALSE, message |-> "Access denied", error |-> error],
                   DefaultAllowedMethods)

createConflictResponse(error) ==
    createResponse(409, [success |-> FALSE, message |-> "Conflict", error |-> error],
                   DefaultAllowedMethods)

createTooManyRequestsResponse ==
    createResponse(429, [success |-> FALSE, message |-> "Too many requests",
                         error |-> "Please try again later"],
                   DefaultAllowedMethods)

createInternalServerErrorResponse ==
    createResponse(500, [success |-> FALSE, message |-> "Internal server error",
                         error |-> "An unexpected error occurred"],
                   DefaultAllowedMethods)

(***************************************************************************)
(* src/utils/validation.ts                                                 *)
(***************************************************************************)
MinPasswordLength == 8

\* The characters of the email values of the inputs, by class: "w" is a run of
\* characters that are no white space, no "@" and no ".".
EmailChars ==
    [v \in {"admin@x.io", "new@x.io", "bad"} |->
        IF v = "bad" THEN <<"w">> ELSE <<"w", "@", "w", ".", "w">>]

\* [^\s@]+ on characters from..to
NoSpaceNoAt(chars, from, to) ==
    from <= to /\ \A k \in from..to : chars[k] \notin {" ", "@"}

\* /^[^\s@]+@[^\s@]+\.[^\s@]+$/.test(email)
emailRegexTest(email) ==
    LET chars == EmailChars[email] IN
    \E a \in 1..Len(chars), d \in 1..Len(chars) :
        /\ a < d
        /\ chars[a] = "@"
        /\ chars[d] = "."
        /\ NoSpaceNoAt(chars, 1, a - 1)
        /\ NoSpaceNoAt(chars, a + 1, d - 1)
        /\ NoSpaceNoAt(chars, d + 1, Len(chars))

Valid == [isValid |-> TRUE]
Invalid(error) == [isValid |-> FALSE, error |-> error]

validateEmail(email) ==
    IF ~Truthy(email) THEN Invalid("Email is required")
    ELSE IF ~emailRegexTest(email) THEN Invalid("Invalid email format")
    ELSE Valid

\* password.length of a number is undefined, and undefined < minLength is false.
validatePassword(password) ==
    IF ~Truthy(password) THEN Invalid("Password is required")
    ELSE IF IsString(password) /\ Len(password) < MinPasswordLength
         THEN Invalid("Password must be at least 8 characters long")
    ELSE Valid

RoleNames == <<"Admin", "SuperAdmin", "User">>

validateRole(role) ==
    IF ~Truthy(role) THEN Invalid("Role is required")
    ELSE IF ~isAuthorized(role, RoleNames)
         THEN Invalid("Role must be one of: " \o JoinComma(RoleNames))
    ELSE Valid

\* The first field of the list that data lacks (or holds falsy); reading a field
\* of null throws.
RECURSIVE validateRequiredFields(_, _)
validateRequiredFields(data, requiredFields) ==
    IF Len(requiredFields) = 0 THEN Ret(Valid)
    ELSE LET v == GetProp(data, requiredFields[1]) IN
         IF v.threw THEN v
         ELSE IF ~Truthy(v.val) THEN Ret(Invalid(requiredFields[1] \o " is required"))
         ELSE validateRequiredFields(data, Tail(requiredFields))

LoginFields == <<"email", "password">>
CreateUserFields == <<"email", "firstName", "lastName", "role", "temporaryPassword">>

validateLoginRequest(body) ==
    LET requiredValidation == validateRequiredFields(body, LoginFields) IN
    IF requiredValidation.threw \/ ~requiredValidation.val.isValid THEN requiredValidation
    ELSE Ret(validateEmail(body.obj.email))

\* validateCreateUserRequest checking the role before the email.
validateCreateUserRequest_RoleFirst(body) ==
    LET requiredValidation == validateRequiredFields(body, CreateUserFields) IN
    IF requiredValidation.threw \/ ~requiredValidation.val.isValid THEN requiredValidation
    ELSE LET emailValidation == validateEmail(body.obj.email)
             roleValidation == validateRole(body.obj.role)
             passwordValidation == validatePassword(body.obj.temporaryPassword)
         IN IF ~roleValidation.isValid THEN Ret(roleValidation)
            ELSE IF ~emailValidation.isValid THEN Ret(emailValidation)
            ELSE Ret(passwordValidation)

validateCreateUserRequest(body) ==
    LET requiredValidation == validateRequiredFields(body, CreateUserFields) IN
    IF requiredValidation.threw \/ ~requiredValidation.val.isValid THEN requiredValidation
    ELSE LET emailValidation == validateEmail(body.obj.email)
             roleValidation == validateRole(body.obj.role)
             passwordValidation == validatePassword(body.obj.temporaryPassword)
         IN IF ~emailValidation.isValid THEN Ret(emailValidation)
            ELSE IF ~roleValidation.isValid THEN Ret(roleValidation)
            ELSE Ret(passwordValidation)

validateAndParseJSON(body) ==
    IF ~TruthyText(body) THEN Invalid("Request body is required")
    ELSE LET parsed == JSONParse(body) IN
         IF parsed.threw THEN Invalid("Invalid JSON format")
         ELSE [isValid |-> TRUE, data |-> parsed.val]

(***************************************************************************)
(* src/utils/cognito.ts: the error map                                     *)
(***************************************************************************)
errorMap ==
    [UsernameExistsException |-> "A user with this email already exists",
     InvalidPasswordException |-> "Password does not meet necessary requirements",
     InvalidParameterException |-> "Invalid user data provided",
     NotAuthorizedException |-> "Invalid email or password",
     UserNotConfirmedException |-> "User account not confirmed",
     PasswordResetRequiredException |-> "Password reset required",
     UserNotFoundException |-> "Invalid email or password",
     TooManyRequestsException |-> "Please try again later"]

handleCognitoError(error) ==
    [name |-> Or(error.name, "UnknownError"),
     message |-> IF error.name \in DOMAIN errorMap THEN errorMap[error.name]
                 ELSE "An unexpected error occurred"]

(***************************************************************************)
(* Requests                                                                *)
(***************************************************************************)
\* event.headers[name]
Header(event, name) ==
    IF name \in DOMAIN event.headers THEN event.headers[name] ELSE NoString

\* event.headers.Authorization || event.headers.authorization
AuthorizationOf(event) ==
    OrText(Header(event, "Authorization"), Header(event, "authorization"))

\* The 401 branch taken for every failure to read the token.
IncludesNoValidToken_AnyTokenError(message) ==
    message \in {NoTokenMessage, InvalidTokenMessage}

\* error.includes('No valid authorization token'): of the messages
\* validateTokenAndRole returns, only NoTokenMessage contains that text.
IncludesNoValidToken(message) == message = NoTokenMessage

\* What a handler has done when it returns or suspends: the checks it ran, the
\* gateway commands it sent, the replies it got, and its response or what it
\* awaits.
Finished(response, trace) ==
    [pc |-> "done", response |-> response, trace |-> trace, sent |-> <<>>,
     replies |-> <<>>]

Awaiting(pc, command, request, caller, trace) ==
    [pc |-> pc, request |-> request, caller |-> caller, trace |-> trace,
     sent |-> <<command>>, replies |-> <<>>]

(***************************************************************************)
(* src/users/getUserInfo.ts                                                *)
(***************************************************************************)
\* UserInfoData without the defaults of the names.
UserInfoData_NoDefaults(user) ==
    LET named == [firstName |-> user.firstName,
                  lastName |-> user.lastName,
                  role |-> user.role]
    IN IF user.email = Undefined THEN named
       ELSE [k \in (DOMAIN named) \cup {"email"} |->
                IF k = "email" THEN user.email ELSE named[k]]

UserInfoData(user) ==
    LET named == [firstName |-> Or(user.firstName, ""),
                  lastName |-> Or(user.lastName, ""),
                  role |-> user.role]
    IN IF user.email = Undefined THEN named
       ELSE [k \in (DOMAIN named) \cup {"email"} |->
                IF k = "email" THEN user.email ELSE named[k]]

getUserInfoHandler(event) ==
    IF event.httpMethod = "OPTIONS"
    THEN Finished(createCorsResponse("GET,OPTIONS"), <<"method">>)
    ELSE IF event.httpMethod # "GET"
    THEN Finished(createMethodNotAllowedResponse("GET"), <<"method">>)
    ELSE LET authValidation == validateTokenAndRole(AuthorizationOf(event), <<"Admin">>) IN
         IF ~authValidation.isValid
         THEN IF IncludesNoValidToken(authValidation.error)
              THEN Finished(createAuthErrorResponse(authValidation.error),
                            <<"method", "auth">>)
              ELSE Finished(createAuthorizationErrorResponse(authValidation.error),
                            <<"method", "auth">>)
         ELSE Finished(
                  createResponse(200,
                      [success |-> TRUE,
                       message |-> "User information retrieved successfully",
                       data |-> [user |-> UserInfoData(authValidation.user)]],
                      DefaultAllowedMethods),
                  <<"method", "auth">>)

(***************************************************************************)
(* src/users/listUsers.ts                                                  *)
(***************************************************************************)
listUsersCatch(error) ==
    IF handleCognitoError(error).name = "TooManyRequestsException"
    THEN createTooManyRequestsResponse
    ELSE createInternalServerErrorResponse

listUsersHandler(event) ==
    IF event.httpMethod = "OPTIONS"
    THEN Finished(createCorsResponse("GET,OPTIONS"), <<"method">>)
    ELSE IF event.httpMethod # "GET"
    THEN Finished(createMethodNotAllowedResponse("GET"), <<"method">>)
    ELSE LET authValidation == validateTokenAndRole(AuthorizationOf(event), <<"SuperAdmin">>) IN
         IF ~authValidation.isValid
         THEN IF IncludesNoValidToken(authValidation.error)
              THEN Finished(createAuthErrorResponse(authValidation.error),
                            <<"method", "auth">>)
              ELSE Finished(createAuthorizationErrorResponse(authValidation.error),
                            <<"method", "auth">>)
         ELSE Awaiting("awaitList", "ListUsers", [Limit |-> 60], authValidation.user,
                       <<"method", "auth", "remote">>)

\* listUsersDone with the one message for every list.
listUsersDone_OneMessage(users) ==
    createResponse(200,
        [success |-> TRUE,
         message |-> "Users retrieved successfully",
         data |-> [users |-> users, totalUsers |-> Len(users)]],
        DefaultAllowedMethods)

\* After the gateway answered: users is the list listCognitoUsers returned.
listUsersDone(users) ==
    createResponse(200,
        [success |-> TRUE,
         message |-> IF Len(users) > 0 THEN "Users retrieved successfully"
                     ELSE "No users found",
         data |-> [users |-> users, totalUsers |-> Len(users)]],
        DefaultAllowedMethods)

(***************************************************************************)
(* src/users/createUser.ts                                                 *)
(***************************************************************************)
\* createUserHandler's catch answering the sign-in failures like loginHandler's.
createUserCatch_LikeLogin(error) ==
    LET cognitoError == handleCognitoError(error) IN
    IF cognitoError.name = "UsernameExistsException"
    THEN createConflictResponse(cognitoError.message)
    ELSE IF cognitoError.name = "TooManyRequestsException"
    THEN createTooManyRequestsResponse
    ELSE IF cognitoError.name \in {"InvalidPasswordException", "InvalidParameterException"}
    THEN createValidationErrorResponse(cognitoError.message)
    ELSE IF cognitoError.name \in {"NotAuthorizedException", "UserNotFoundException"}
    THEN createAuthErrorResponse(cognitoError.message)
    ELSE createInternalServerErrorResponse

\* createUserCatch without the branch of the existing username.
createUserCatch_NoConflict(error) ==
    LET cognitoError == handleCognitoError(error) IN
    IF cognitoError.name = "TooManyRequestsException"
    THEN createTooManyRequestsResponse
    ELSE IF cognitoError.name \in {"InvalidPasswordException", "InvalidParameterException"}
    THEN createValidationErrorResponse(cognitoError.message)
    ELSE createInternalServerErrorResponse

createUserCatch(error) ==
    LET cognitoError == handleCognitoError(error) IN
    IF cognitoError.name = "UsernameExistsException"
    THEN createConflictResponse(cognitoError.message)
    ELSE IF cognitoError.name = "TooManyRequestsException"
    THEN createTooManyRequestsResponse
    ELSE IF cognitoError.name \in {"InvalidPasswordException", "InvalidParameterException"}
    THEN createValidationErrorResponse(cognitoError.message)
    ELSE createInternalServerErrorResponse

\* createUserHandler with the body checked before the caller.
createUserHandler_BodyFirst(event) ==
    IF event.httpMethod = "OPTIONS"
    THEN Finished(createCorsResponse("POST,OPTIONS"), <<"method">>)
    ELSE IF event.httpMethod # "POST"
    THEN Finished(createMethodNotAllowedResponse("POST"), <<"method">>)
    ELSE LET parseResult == validateAndParseJSON(event.body)
             authValidation ==
                 validateTokenAndRole(AuthorizationOf(event), <<"Admin", "SuperAdmin">>)
         IN
         IF ~parseResult.isValid
         THEN Finished(createValidationErrorResponse(parseResult.error),
                       <<"method", "parse">>)
         ELSE IF ~authValidation.isValid
         THEN IF IncludesNoValidToken(authValidation.error)
              THEN Finished(createAuthErrorResponse(authValidation.error),
                            <<"method", "parse", "auth">>)
              ELSE Finished(createAuthorizationErrorResponse(authValidation.error),
                            <<"method", "parse", "auth">>)
         ELSE LET validation == validateCreateUserRequest(parseResult.data) IN
              IF validation.threw
              THEN Finished(createUserCatch(validation),
                            <<"method", "parse", "auth", "validate">>)
              ELSE IF ~validation.val.isValid
              THEN Finished(createValidationErrorResponse(validation.val.error),
                            <<"method", "parse", "auth", "validate">>)
              ELSE Awaiting("awaitCreate", "AdminCreateUser",
                            [email |-> parseResult.data.obj.email,
                             firstName |-> parseResult.data.obj.firstName,
                             lastName |-> parseResult.data.obj.lastName,
                             role |-> parseResult.data.obj.role,
                             temporaryPassword |-> parseResult.data.obj.temporaryPassword],
                            authValidation.user,
                            <<"method", "parse", "auth", "validate", "remote">>)

\* createUserHandler refusing an Admin who asks for a SuperAdmin.
createUserHandler_RoleRanked(event) ==
    IF event.httpMethod = "OPTIONS"
    THEN Finished(createCorsResponse("POST,OPTIONS"), <<"method">>)
    ELSE IF event.httpMethod # "POST"
    THEN Finished(createMethodNotAllowedResponse("POST"), <<"method">>)
    ELSE LET authValidation ==
                 validateTokenAndRole(AuthorizationOf(event), <<"Admin", "SuperAdmin">>)
         IN
         IF ~authValidation.isValid
         THEN IF IncludesNoValidToken(authValidation.error)
              THEN Finished(createAuthErrorResponse(authValidation.error),
                            <<"method", "auth">>)
              ELSE Finished(createAuthorizationErrorResponse(authValidation.error),
                            <<"method", "auth">>)
         ELSE LET parseResult == validateAndParseJSON(event.body) IN
              IF ~parseResult.isValid
              THEN Finished(createValidationErrorResponse(parseResult.error),
                            <<"method", "auth", "parse">>)
              ELSE LET validation == validateCreateUserRequest(parseResult.data) IN
                   IF validation.threw
                   THEN Finished(createUserCatch(validation),
                                 <<"method", "auth", "parse", "validate">>)
                   ELSE IF ~validation.val.isValid
                   THEN Finished(createValidationErrorResponse(validation.val.error),
                                 <<"method", "auth", "parse", "validate">>)
                   ELSE IF /\ authValidation.user.role = "Admin"
                           /\ parseResult.data.obj.role = "SuperAdmin"
                   THEN Finished(createAuthorizationErrorResponse(
                                     "Insufficient permissions"),
                                 <<"method", "auth", "parse", "validate">>)
                   ELSE Awaiting("awaitCreate", "AdminCreateUser",
                            [email |-> parseResult.data.obj.email,
                             firstName |-> parseResult.data.obj.firstName,
                             lastName |-> parseResult.data.obj.lastName,
                             role |-> parseResult.data.obj.role,
                             temporaryPassword |-> parseResult.data.obj.temporaryPassword],
                            authValidation.user,
                            <<"method", "auth", "parse", "validate", "remote">>)

createUserHandler(event) ==
    IF event.httpMethod = "OPTIONS"
    THEN Finished(createCorsResponse("POST,OPTIONS"), <<"method">>)
    ELSE IF event.httpMethod # "POST"
    THEN Finished(createMethodNotAllowedResponse("POST"), <<"method">>)
    ELSE LET authValidation ==
                 validateTokenAndRole(AuthorizationOf(event), <<"Admin", "SuperAdmin">>)
         IN
         IF ~authValidation.isValid
         THEN IF IncludesNoValidToken(authValidation.error)
              THEN Finished(createAuthErrorResponse(authValidation.error),
                            <<"method", "auth">>)
              ELSE Finished(createAuthorizationErrorResponse(authValidation.error),
                            <<"method", "auth">>)
         ELSE LET parseResult == validateAndParseJSON(event.body) IN
              IF ~parseResult.isValid
              THEN Finished(createValidationErrorResponse(parseResult.error),
                            <<"method", "auth", "parse">>)
              ELSE LET validation == validateCreateUserRequest(parseResult.data) IN
                   IF validation.threw
                   THEN Finished(createUserCatch(validation),
                                 <<"method", "auth", "parse", "validate">>)
                   ELSE IF ~validation.val.isValid
                   THEN Finished(createValidationErrorResponse(validation.val.error),
                                 <<"method", "auth", "parse", "validate">>)
                   ELSE Awaiting("awaitCreate", "AdminCreateUser",
                            [email |-> parseResult.data.obj.email,
                             firstName |-> parseResult.data.obj.firstName,
                             lastName |-> parseResult.data.obj.lastName,
                             role |-> parseResult.data.obj.role,
                             temporaryPassword |-> parseResult.data.obj.temporaryPassword],
                            authValidation.user,
                            <<"method", "auth", "parse", "validate", "remote">>)

\* createUserDone reporting the status the user has after the password is set.
createUserDone_Refreshed(request, createdUser) ==
    createResponse(201,
        [success |-> TRUE,
         message |-> "User created successfully",
         data |-> [userId |-> createdUser.Username,
                   email |-> request.email,
                   firstName |-> request.firstName,
                   lastName |-> request.lastName,
                   role |-> request.role,
                   status |-> "CONFIRMED"]],
        DefaultAllowedMethods)

\* After both gateway commands succeeded: createdUser is the User of the create
\* step's reply.
createUserDone(request, createdUser) ==
    createResponse(201,
        [success |-> TRUE,
         message |-> "User created successfully",
         data |-> [userId |-> createdUser.Username,
                   email |-> request.email,
                   firstName |-> request.firstName,
                   lastName |-> request.lastName,
                   role |-> request.role,
                   status |-> createdUser.UserStatus]],
        DefaultAllowedMethods)

(***************************************************************************)
(* src/auth/login.ts                                                       *)
(***************************************************************************)
\* loginHandler's catch without the branch of the sign-in failures.
loginCatch_NoAuthBranch(error) ==
    IF handleCognitoError(error).name = "TooManyRequestsException"
    THEN createTooManyRequestsResponse
    ELSE createInternalServerErrorResponse

loginCatch(error) ==
    LET cognitoError == handleCognitoError(error) IN
    IF cognitoError.name = "TooManyRequestsException"
    THEN createTooManyRequestsResponse
    ELSE IF cognitoError.name \in {"NotAuthorizedException", "UserNotConfirmedException",
                                   "PasswordResetRequiredException", "UserNotFoundException"}
    THEN createAuthErrorResponse(cognitoError.message)
    ELSE createInternalServerErrorResponse

loginHandler(event) ==
    IF event.httpMethod = "OPTIONS"
    THEN Finished(createCorsResponse("POST,OPTIONS"), <<"method">>)
    ELSE IF event.httpMethod # "POST"
    THEN Finished(createMethodNotAllowedResponse("POST"), <<"method">>)
    ELSE LET parseResult == validateAndParseJSON(event.body) IN
         IF ~parseResult.isValid
         THEN Finished(createValidationErrorResponse(parseResult.error),
                       <<"method", "parse">>)
         ELSE LET validation == validateLoginRequest(parseResult.data) IN
              IF validation.threw
              THEN Finished(loginCatch(validation), <<"method", "parse", "validate">>)
              ELSE IF ~validation.val.isValid
              THEN Finished(createValidationErrorResponse(validation.val.error),
                            <<"method", "parse", "validate">>)
              ELSE Awaiting("awaitAuth", "AdminInitiateAuth",
                            [email |-> parseResult.data.obj.email,
                             password |-> parseResult.data.obj.password],
                            Undefined,
                            <<"method", "parse", "validate", "remote">>)

\* loginDone without the default of the role.
loginDone_NoRoleDefault(authResultOfGateway) ==
    IF ~TruthyText(authResultOfGateway.IdToken)
    THEN createAuthErrorResponse("ID token not received")
    ELSE LET userPayload == decodeJWTPayload(authResultOfGateway.IdToken) IN
         IF userPayload.threw THEN loginCatch(userPayload)
         ELSE LET email == GetProp(userPayload.val, "email") IN
              IF email.threw THEN loginCatch(email)
              ELSE createResponse(200,
                       [success |-> TRUE,
                        message |-> "Login successful",
                        data |-> [accessToken |-> authResultOfGateway.AccessToken,
                                  idToken |-> authResultOfGateway.IdToken,
                                  refreshToken |-> authResultOfGateway.RefreshToken,
                                  user |-> UserInfoData(
                                      [email |-> email.val,
                                       firstName |-> GetProp(userPayload.val, "given_name").val,
                                       lastName |-> GetProp(userPayload.val, "family_name").val,
                                       role |-> GetProp(userPayload.val,
                                                        "custom:user_role").val])]],
                       DefaultAllowedMethods)

\* After the gateway answered with an AuthenticationResult.
loginDone(authResultOfGateway) ==
    IF ~TruthyText(authResultOfGateway.IdToken)
    THEN createAuthErrorResponse("ID token not received")
    ELSE LET userPayload == decodeJWTPayload(authResultOfGateway.IdToken) IN
         IF userPayload.threw THEN loginCatch(userPayload)
         ELSE LET email == GetProp(userPayload.val, "email") IN
              IF email.threw THEN loginCatch(email)
              ELSE createResponse(200,
                       [success |-> TRUE,
                        message |-> "Login successful",
                        data |-> [accessToken |-> authResultOfGateway.AccessToken,
                                  idToken |-> authResultOfGateway.IdToken,
                                  refreshToken |-> authResultOfGateway.RefreshToken,
                                  user |-> UserInfoData(
                                      [email |-> email.val,
                                       firstName |-> GetProp(userPayload.val, "given_name").val,
                                       lastName |-> GetProp(userPayload.val, "family_name").val,
                                       role |-> Or(GetProp(userPayload.val,
                                                           "custom:user_role").val,
                                                   "User")])]],
                       DefaultAllowedMethods)

(***************************************************************************)
(* The identity provider behind src/utils/cognito.ts                       *)
(***************************************************************************)
\* Names of the failures a gateway command can end with.
GatewayFailures == (DOMAIN errorMap) \cup {"InternalErrorException"}

Failure(name) == Throw(name, "provider: " \o name)

MemberFor(key, value) == CHOOSE m \in MemberLexemes : MemberTable[m] = <<key, value>>

\* The ID token the provider issues for a user of the directory.
IdTokenOf(email) ==
    JoinDots(<<SegAlg,
               ClaimsText(<<MemberFor("email", email), ",",
                            MemberFor("custom:user_role", directory[email].role), ",",
                            MemberFor("given_name", directory[email].firstName), ",",
                            MemberFor("family_name", directory[email].lastName)>>),
               SegSignature>>)

\* An ID token of the user that carries the email only (the names and the role
\* attribute are not readable by the client).
BareIdTokenOf(email) ==
    JoinDots(<<SegAlg, ClaimsText(<<MemberFor("email", email)>>), SegSignature>>)

UserIdOf(email) == "sub:" \o email

\* transformCognitoUser
transformCognitoUser(email) ==
    [email |-> email,
     firstName |-> directory[email].firstName,
     lastName |-> directory[email].lastName,
     role |-> Or(directory[email].role, "User"),
     status |-> Or(directory[email].status, "UNKNOWN"),
     createdDate |-> "2025-01-01T00:00:00.000Z",
     lastModifiedDate |-> "2025-01-01T00:00:00.000Z"]

\* The users of the directory as the list a ListUsers reply carries.
RECURSIVE UsersList(_)
UsersList(emails) ==
    IF emails = {} THEN <<>>
    ELSE LET e == CHOOSE x \in emails : TRUE
         IN <<transformCognitoUser(e)>> \o UsersList(emails \ {e})

(***************************************************************************)
(* The requests of the inputs                                              *)
(***************************************************************************)
Methods == {"OPTIONS", "GET", "POST", "DELETE"}

TokenFor(seg) == JoinDots(<<SegAlg, seg, SegSignature>>)

\* Values of an authorization header.
AuthValues ==
    {Bearer(<<SegAlg, seg, SegSignature>>) :
        seg \in {SegAdmin, SegAdminBare, SegSuper, SegUser, SegNoRole, SegEmptyRole,
                 SegNull, SegTruncated}}
    \cup {<<>>,                                   \* the empty string
          TokenFor(SegAdmin),                     \* a token without the prefix
          <<"bearer ">> \o TokenFor(SegAdmin),    \* the prefix in lower case
          <<BearerPrefix>>,                       \* the prefix and nothing else
          Bearer(<<SegAdmin>>),                   \* one segment
          Bearer(<<SegAlg, SegSuper>>)}           \* two segments

NoHeaders == [n \in {} |-> <<>>]
OneHeader(name, value) == [n \in {name} |-> value]
TwoHeaders(upper, lower) ==
    [n \in {"Authorization", "authorization"} |->
        IF n = "Authorization" THEN upper ELSE lower]

EventHeaders ==
    {NoHeaders}
    \cup {OneHeader("Authorization", v) : v \in AuthValues}
    \cup {OneHeader("authorization", v) :
            v \in {Bearer(<<SegAlg, SegAdmin, SegSignature>>),
                   Bearer(<<SegAlg, SegSuper, SegSignature>>),
                   TokenFor(SegAdmin)}}
    \cup {OneHeader("AUTHORIZATION", Bearer(<<SegAlg, SegAdmin, SegSignature>>))}
    \cup {TwoHeaders(<<>>, Bearer(<<SegAlg, SegSuper, SegSignature>>)),
          TwoHeaders(TokenFor(SegAdmin), Bearer(<<SegAlg, SegAdmin, SegSignature>>))}

ObjectText(members) == <<"{">> \o members \o <<"}">>

\* Bodies: absent, empty, not JSON, JSON that is no object, and objects.
Bodies ==
    {NoString, <<>>, <<"{", "b_first">>, <<"null">>, <<"1">>, ObjectText(<<>>)}
    \cup {ObjectText(<<"m_email_new", ",", "b_first", ",", "b_last", ",", role, ",",
                       "b_temp_ok">>) :
            role \in {"b_role_Admin", "b_role_Super", "b_role_User"}}
    \cup {ObjectText(<<"b_first", ",", "b_last", ",", "b_role_User">>),
          ObjectText(<<"m_email_bad", ",", "b_first", ",", "b_last", ",", "b_role_bad",
                       ",", "b_temp_short">>),
          ObjectText(<<"m_email_new", ",", "b_first", ",", "b_last", ",", "b_role_bad",
                       ",", "b_temp_short">>),
          ObjectText(<<"m_email_new", ",", "b_first", ",", "b_last", ",", "b_role_User",
                       ",", "b_temp_short">>),
          ObjectText(<<"m_email_new", ",", "b_first", ",", "b_last", ",", "b_role_User",
                       ",", "b_temp_number">>),
          ObjectText(<<"m_email_new", ",", "b_pass_ok">>),
          ObjectText(<<"m_email_new", ",", "b_pass_wrong">>),
          ObjectText(<<"m_email_bad", ",", "b_pass_ok">>),
          ObjectText(<<"b_pass_ok">>)}

Events == [httpMethod : Methods, headers : EventHeaders, body : Bodies]

(***************************************************************************)
(* Invocations.  A handler runs without interruption up to its first       *)
(* gateway command and again from each reply; invocations of this          *)
(* specification are served one at a time.                                 *)
(***************************************************************************)
Invs == 1..MaxInv

IdleInv == [pc |-> "idle"]

InitHandlers ==
    /\ inv = [i \in Invs |-> IdleInv]
    /\ directory = [e \in {} |-> 0]

Invocation(handler, event, outcome) ==
    [k \in (DOMAIN outcome) \cup {"handler", "event"} |->
        IF k = "handler" THEN handler
        ELSE IF k = "event" THEN event
        ELSE outcome[k]]

AllIdle == \A i \in Invs : inv[i].pc = "idle"

Begin(i, handler, event, outcome) ==
    /\ inv' = [inv EXCEPT ![i] = Invocation(handler, event, outcome)]
    /\ UNCHANGED <<directory, authHeader, requiredRoles, authResult, validator, requestBody, validationResult>>

StartLogin(i) ==
    /\ AllIdle
    /\ \E event \in Events : Begin(i, "login", event, loginHandler(event))

StartCreateUser(i) ==
    /\ AllIdle
    /\ \E event \in Events : Begin(i, "createUser", event, createUserHandler(event))

StartGetUserInfo(i) ==
    /\ AllIdle
    /\ \E event \in Events : Begin(i, "getUserInfo", event, getUserInfoHandler(event))

StartListUsers(i) ==
    /\ AllIdle
    /\ \E event \in Events : Begin(i, "listUsers", event, listUsersHandler(event))

\* A reply of the gateway that carries nothing the code reads.
EmptyReply == [x \in {} |-> ""]

\* Respond letting a failure the error map does not name leave the handler as
\* an exception: the invocation ends without a response.
Respond_Rethrow(i, reply, response) ==
    inv' = [inv EXCEPT ![i] =
               IF reply.threw /\ reply.name \notin DOMAIN errorMap
               THEN [k \in DOMAIN inv[i] |-> IF k = "pc" THEN "threw" ELSE inv[i][k]]
               ELSE [k \in (DOMAIN inv[i]) \cup {"response"} |->
                        IF k = "pc" THEN "done"
                        ELSE IF k = "response" THEN response
                        ELSE IF k = "replies" THEN Append(inv[i].replies, reply)
                        ELSE inv[i][k]]]

\* Respond sending a throttled command once more instead of returning.
Respond_Retry(i, reply, response) ==
    inv' = [inv EXCEPT ![i] =
               IF /\ reply.threw
                  /\ reply.name = "TooManyRequestsException"
                  /\ Len(inv[i].sent) < 3
               THEN [k \in DOMAIN inv[i] |->
                        IF k = "sent"
                        THEN Append(inv[i].sent, inv[i].sent[Len(inv[i].sent)])
                        ELSE IF k = "replies" THEN Append(inv[i].replies, reply)
                        ELSE inv[i][k]]
               ELSE [k \in (DOMAIN inv[i]) \cup {"response"} |->
                        IF k = "pc" THEN "done"
                        ELSE IF k = "response" THEN response
                        ELSE IF k = "replies" THEN Append(inv[i].replies, reply)
                        ELSE inv[i][k]]]

\* Respond answering from a response kept in the process by another invocation.
Respond_SharedResponse(i, reply, response) ==
    inv' = [inv EXCEPT ![i] =
               [k \in (DOMAIN inv[i]) \cup {"response"} |->
                   IF k = "pc" THEN "done"
                   ELSE IF k = "response"
                        THEN IF \E j \in DOMAIN inv : j # i /\ inv[j].pc = "done"
                             THEN inv[CHOOSE j \in DOMAIN inv :
                                         j # i /\ inv[j].pc = "done"].response
                             ELSE response
                   ELSE IF k = "replies" THEN Append(inv[i].replies, reply)
                   ELSE inv[i][k]]]

\* The handler gets reply from the gateway and returns response.
Respond(i, reply, response) ==
    inv' = [inv EXCEPT ![i] =
               [k \in (DOMAIN inv[i]) \cup {"response"} |->
                   IF k = "pc" THEN "done"
                   ELSE IF k = "response" THEN response
                   ELSE IF k = "replies" THEN Append(inv[i].replies, reply)
                   ELSE inv[i][k]]]

\* The User of the reply to AdminCreateUser.
CreatedUser(email) ==
    [Username |-> UserIdOf(email), UserStatus |-> "FORCE_CHANGE_PASSWORD"]

\* createCognitoUser, first command: AdminCreateUser is atomic in the directory
\* and rejects a username that exists.  A reply without User makes
\* createCognitoUser throw.
CreateUserReply(i) ==
    /\ inv[i].pc = "awaitCreate"
    /\ UNCHANGED <<authHeader, requiredRoles, authResult, validator, requestBody, validationResult>>
    /\ LET request == inv[i].request IN
       \/ \E name \in GatewayFailures :
            /\ name = "UsernameExistsException" => request.email \in DOMAIN directory
            /\ Respond(i, Failure(name), createUserCatch(Failure(name)))
            /\ UNCHANGED directory
       \/ /\ request.email \notin DOMAIN directory
          /\ Respond(i, Ret(EmptyReply),
                     createUserCatch(Throw("Error", "Failed to create user in Cognito")))
          /\ UNCHANGED directory
       \/ /\ request.email \notin DOMAIN directory
          /\ directory' =
                [e \in (DOMAIN directory) \cup {request.email} |->
                    IF e = request.email
                    THEN [role |-> request.role,
                          firstName |-> request.firstName,
                          lastName |-> request.lastName,
                          password |-> request.temporaryPassword,
                          status |-> "FORCE_CHANGE_PASSWORD"]
                    ELSE directory[e]]
          /\ inv' = [inv EXCEPT ![i] =
                        [k \in (DOMAIN inv[i]) \cup {"createdUser"} |->
                            IF k = "pc" THEN "awaitSetPassword"
                            ELSE IF k = "sent" THEN Append(inv[i].sent, "AdminSetUserPassword")
                            ELSE IF k = "replies"
                                 THEN Append(inv[i].replies,
                                             Ret([User |-> CreatedUser(request.email)]))
                            ELSE IF k = "createdUser" THEN CreatedUser(request.email)
                            ELSE inv[i][k]]]

\* createCognitoUser, second command, and the rest of createUserHandler.
SetPasswordReply(i) ==
    /\ inv[i].pc = "awaitSetPassword"
    /\ UNCHANGED <<authHeader, requiredRoles, authResult, validator, requestBody, validationResult>>
    /\ LET request == inv[i].request IN
       \/ \E name \in GatewayFailures \ {"UsernameExistsException"} :
            /\ Respond(i, Failure(name), createUserCatch(Failure(name)))
            /\ UNCHANGED directory
       \/ /\ directory' = [directory EXCEPT ![request.email].status = "CONFIRMED",
                                            ![request.email].password = request.temporaryPassword]
          /\ Respond(i, Ret(EmptyReply), createUserDone(request, inv[i].createdUser))

\* listCognitoUsers and the rest of listUsersHandler; a reply without Users
\* counts as the empty list.
ListUsersReply(i) ==
    /\ inv[i].pc = "awaitList"
    /\ UNCHANGED <<directory, authHeader, requiredRoles, authResult, validator, requestBody, validationResult>>
    /\ \/ \E name \in GatewayFailures \ {"UsernameExistsException"} :
            Respond(i, Failure(name), listUsersCatch(Failure(name)))
       \/ Respond(i, Ret([Users |-> UsersList(DOMAIN directory)]),
                   listUsersDone(UsersList(DOMAIN directory)))
       \/ directory = [e \in {} |-> 0] /\ Respond(i, Ret(EmptyReply), listUsersDone(<<>>))

\* authenticateUser and the rest of loginHandler.  The provider issues tokens
\* to a confirmed user giving the right password; a user still holding a
\* temporary password gets a challenge, a reply without AuthenticationResult.
AuthenticateReply(i) ==
    /\ inv[i].pc = "awaitAuth"
    /\ UNCHANGED <<directory, authHeader, requiredRoles, authResult, validator, requestBody, validationResult>>
    /\ LET request == inv[i].request
           known == /\ request.email \in DOMAIN directory
                    /\ directory[request.email].password = request.password
       IN
       \/ \E name \in GatewayFailures \ {"UsernameExistsException"} :
            /\ name \in {"NotAuthorizedException", "UserNotFoundException"} => ~known
            /\ Respond(i, Failure(name), loginCatch(Failure(name)))
       \/ /\ known
          /\ directory[request.email].status = "FORCE_CHANGE_PASSWORD"
          /\ Respond(i, Ret(EmptyReply),
                     loginCatch(Throw("Error", "Authentication failed - no result received")))
       \/ /\ known
          /\ directory[request.email].status = "CONFIRMED"
          /\ \E idToken \in {NoString, IdTokenOf(request.email),
                             BareIdTokenOf(request.email)} :
                LET result == [AccessToken |-> "access-token",
                               IdToken |-> idToken,
                               RefreshToken |-> "refresh-token"]
                IN Respond(i, Ret([AuthenticationResult |-> result]), loginDone(result))

\* The response has been delivered; the slot is free again.
Return(i) ==
    /\ inv[i].pc = "done"
    /\ inv' = [inv EXCEPT ![i] = IdleInv]
    /\ UNCHANGED <<directory, authHeader, requiredRoles, authResult, validator, requestBody, validationResult>>

Next ==
    \E i \in Invs :
        \/ StartLogin(i)
        \/ StartCreateUser(i)
        \/ StartGetUserInfo(i)
        \/ StartListUsers(i)
        \/ CreateUserReply(i)
        \/ SetPasswordReply(i)
        \/ ListUsersReply(i)
        \/ AuthenticateReply(i)
        \/ Return(i)

(***************************************************************************)
(* Direct calls of validateTokenAndRole                                    *)
(***************************************************************************)
\* No direct call of a validator is under way.
NoValidatorCall ==
    /\ validator = "login"
    /\ requestBody = [kind |-> "null"]
    /\ validationResult = Pending

InitPolicy ==
    /\ InitHandlers
    /\ NoValidatorCall
    /\ authHeader \in PolicyHeaders
    /\ requiredRoles \in PolicyRoleLists
    /\ authResult = Pending

Authorize ==
    /\ authResult = Pending
    /\ authResult' = validateTokenAndRole(authHeader, requiredRoles)
    /\ UNCHANGED <<inv, directory, authHeader, requiredRoles, validator, requestBody, validationResult>>

NextPolicy == Authorize

SpecPolicy == InitPolicy /\ [][NextPolicy]_vars

(***************************************************************************)
(* Direct calls of the composite validators                                *)
(***************************************************************************)
\* Values of the fields of the generated bodies; Undefined stands for a field
\* the body does not have.
FieldValues ==
    [email : {Undefined, "", "bad", "new@x.io"},
     password : {Undefined, "TempPass123!"},
     firstName : {Undefined, "", "Ada"},
     lastName : {Undefined, "Byron"},
     role : {Undefined, "", "Guest", "SuperAdmin"},
     temporaryPassword : {Undefined, "", "short", "TempPass123!"}]

\* The object with the fields a choice of values gives it.
ObjectWith(choice) ==
    [kind |-> "object",
     obj |-> [k \in {f \in DOMAIN choice : choice[f] # Undefined} |-> choice[k]]]

\* Parsed bodies: objects, null and a number.
ParsedBodies ==
    {ObjectWith(choice) : choice \in FieldValues}
    \cup {[kind |-> "null"], [kind |-> "number"]}

Validators == {"login", "createUser"}

InitValidate ==
    /\ InitHandlers
    /\ authHeader = NoString
    /\ requiredRoles = <<>>
    /\ authResult = Pending
    /\ validator \in Validators
    /\ requestBody \in ParsedBodies
    /\ validationResult = Pending

Validate ==
    /\ validationResult = Pending
    /\ validationResult' = IF validator = "login" THEN validateLoginRequest(requestBody)
                     ELSE validateCreateUserRequest(requestBody)
    /\ UNCHANGED <<inv, directory, authHeader, requiredRoles, authResult,
                   validator, requestBody>>

NextValidate == Validate

SpecValidate == InitValidate /\ [][NextValidate]_vars

Init ==
    /\ InitHandlers
    /\ NoValidatorCall
    /\ authHeader = NoString
    /\ requiredRoles = <<>>
    /\ authResult = Pending

Spec == Init /\ [][Next]_vars

(***************************************************************************)
(* src/utils/cognito.ts: what each gateway function returns or throws,     *)
(* given the replies cognito.send gave it.                                 *)
(***************************************************************************)
\* The handler of a route, run up to its first gateway command or its return.
Handle(handler, event) ==
    CASE handler = "login" -> loginHandler(event)
      [] handler = "createUser" -> createUserHandler(event)
      [] handler = "getUserInfo" -> getUserInfoHandler(event)
      [] handler = "listUsers" -> listUsersHandler(event)

\* createCognitoUser, given the replies to AdminCreateUser and AdminSetUserPassword.
createCognitoUser(replies) ==
    IF replies[1].threw THEN replies[1]
    ELSE IF "User" \notin DOMAIN replies[1].val
    THEN Throw("Error", "Failed to create user in Cognito")
    ELSE IF replies[2].threw THEN replies[2]
    ELSE Ret(replies[1].val.User)

authenticateUser(reply) ==
    IF reply.threw THEN reply
    ELSE IF "AuthenticationResult" \notin DOMAIN reply.val
    THEN Throw("Error", "Authentication failed - no result received")
    ELSE Ret(reply.val.AuthenticationResult)

listCognitoUsers(reply) ==
    IF reply.threw THEN reply
    ELSE IF "Users" \notin DOMAIN reply.val THEN Ret(<<>>)
    ELSE Ret(reply.val.Users)

\* The response a handler returns for an event, given the replies the gateway
\* gave to the commands of this invocation.
ResponseFrom(handler, event, replies) ==
    LET first == Handle(handler, event) IN
    IF first.pc = "done" THEN first.response
    ELSE IF handler = "login"
    THEN LET result == authenticateUser(replies[1]) IN
         IF result.threw THEN loginCatch(result) ELSE loginDone(result.val)
    ELSE IF handler = "listUsers"
    THEN LET users == listCognitoUsers(replies[1]) IN
         IF users.threw THEN listUsersCatch(users) ELSE listUsersDone(users.val)
    ELSE LET createdUser == createCognitoUser(replies) IN
         IF createdUser.threw THEN createUserCatch(createdUser)
         ELSE createUserDone(first.request, createdUser.val)

(***************************************************************************)
(* Concurrent invocations: a handler may start while others are suspended  *)
(* at a gateway command.                                                   *)
(***************************************************************************)
Request(handler, method, header, body) ==
    [handler |-> handler,
     event |-> [httpMethod |-> method,
                headers |-> OneHeader("Authorization", header),
                body |-> body]]

\* The requests of the concurrent invocations.
ConcurrentRequests ==
    {Request("login", "POST", <<>>, ObjectText(<<"m_email_new", ",", "b_pass_ok">>)),
     Request("login", "POST", <<>>, <<"null">>),
     Request("createUser", "POST", Bearer(<<SegAlg, SegAdmin, SegSignature>>),
             ObjectText(<<"m_email_new", ",", "b_first", ",", "b_last", ",",
                          "b_role_Super", ",", "b_temp_ok">>)),
     Request("createUser", "POST", Bearer(<<SegAlg, SegUser, SegSignature>>), <<>>),
     Request("getUserInfo", "GET", Bearer(<<SegAlg, SegAdmin, SegSignature>>), NoString),
     Request("listUsers", "GET", Bearer(<<SegAlg, SegSuper, SegSignature>>), NoString),
     Request("listUsers", "GET", Bearer(<<SegAlg, SegAdmin, SegSignature>>), NoString)}

StartConcurrent(i) ==
    /\ inv[i].pc = "idle"
    /\ \E r \in ConcurrentRequests :
          Begin(i, r.handler, r.event, Handle(r.handler, r.event))

NextConcurrent ==
    \E i \in Invs :
        \/ StartConcurrent(i)
        \/ CreateUserReply(i)
        \/ SetPasswordReply(i)
        \/ ListUsersReply(i)
        \/ AuthenticateReply(i)
        \/ Return(i)

SpecConcurrent == Init /\ [][NextConcurrent]_vars

\* Every gateway command is answered, by a reply or by a failure, and the
\* handler awaiting it then runs on.
SpecLive ==
    /\ Spec
    /\ \A i \in Invs :
          /\ WF_vars(CreateUserReply(i))
          /\ WF_vars(SetPasswordReply(i))
          /\ WF_vars(ListUsersReply(i))
          /\ WF_vars(AuthenticateReply(i))

(***************************************************************************)
(* Properties of the role policy (SpecPolicy)                              *)
(***************************************************************************)
Range(seq) == {seq[k] : k \in 1..Len(seq)}

Called == authResult # Pending

\* The token of a header that carries one.
HasBearer(header) == TruthyText(header) /\ StartsWith(header, BearerPrefix)
TokenOf(header) == ReplaceFirst(header, BearerPrefix)
SecondSegment(header) == At(Split(TokenOf(header)), 2)

\* The claims a header resolves to, where it resolves to any.
Resolves(header) == ~extractUserFromToken(header).threw
ResolvedRole(header) == extractUserFromToken(header).val.role

\* C1: validateTokenAndRole answers isValid = true exactly when the header
\* resolves to claims and the resolved role is in the allowed-role list or the
\* list is empty; a header that resolves to no claims (absent, no Bearer prefix,
\* undecodable) is rejected also under the empty list.
C1_ValidIffRoleAllowed ==
    Called =>
        (authResult.isValid <=>
            /\ Resolves(authHeader)
            /\ \/ requiredRoles = <<>>
               \/ ResolvedRole(authHeader) \in Range(requiredRoles))

C1_Witness ==
    /\ Called
    /\ authResult.isValid
    /\ requiredRoles = <<"Admin", "SuperAdmin">>
    /\ ResolvedRole(authHeader) = "SuperAdmin"

\* C7: the decision and the resolved claims depend only on the second segment of
\* the token: the result for a header equals the result for every header made of
\* the same second segment between other first and trailing segments (so any two
\* headers with the same second segment have the same result).
OtherFirstSegs == {SegSignature, SegAdmin, SegEmpty}
OtherTails == {<<>>, <<SegNoRole>>, <<SegSuper, SegEmpty>>}

C7_OnlySecondSegment ==
    (Called /\ HasBearer(authHeader) /\ SecondSegment(authHeader) # NoString) =>
        \A first \in OtherFirstSegs, tail \in OtherTails :
            validateTokenAndRole(
                Bearer(<<first, SecondSegment(authHeader)>> \o tail), requiredRoles)
            = authResult

C7_Witness ==
    /\ Called
    /\ HasBearer(authHeader)
    /\ Len(Split(TokenOf(authHeader))) = 3
    /\ Split(TokenOf(authHeader))[1] = SegSuper
    /\ SecondSegment(authHeader) = SegAdmin
    /\ Split(TokenOf(authHeader))[3] = SegSuper
    /\ requiredRoles = <<"Admin">>
    /\ authResult.isValid

\* The second segment of the token does not base64-decode to a JSON text.
MiddleNotJSON(header) ==
    /\ SecondSegment(header) # NoString
    /\ JSONParse(Base64Decode(SecondSegment(header))).threw

RejectedAsInvalidFormat ==
    ~authResult.isValid /\ authResult.error = InvalidTokenMessage

\* C8 as stated: a bearer token that has not exactly three dot-separated
\* segments, or whose middle segment is not base64-encoded JSON, is rejected with
\* "Invalid token format".
C8_NotThreeSegmentsRejected ==
    (/\ Called
     /\ HasBearer(authHeader)
     /\ \/ Len(Split(TokenOf(authHeader))) # 3
        \/ MiddleNotJSON(authHeader))
    => RejectedAsInvalidFormat

\* C8 amended: a bearer token that has fewer than two dot-separated segments, or
\* whose second segment does not base64-decode to a JSON text, is rejected with
\* "Invalid token format".
C8_NoSecondSegmentRejected ==
    (/\ Called
     /\ HasBearer(authHeader)
     /\ \/ Len(Split(TokenOf(authHeader))) < 2
        \/ MiddleNotJSON(authHeader))
    => RejectedAsInvalidFormat

C8_Witness ==
    /\ Called
    /\ HasBearer(authHeader)
    /\ Len(Split(TokenOf(authHeader))) = 3
    /\ SecondSegment(authHeader) = SegTruncated
    /\ RejectedAsInvalidFormat

(***************************************************************************)
(* Properties of the handlers (Spec)                                       *)
(***************************************************************************)
Started(i) == inv[i].pc # "idle"
Done(i) == inv[i].pc = "done"

ProtectedHandlers == {"createUser", "getUserInfo", "listUsers"}

\* The method and the allow-list each handler is specified with.
AcceptedMethod(handler) == IF handler \in {"login", "createUser"} THEN "POST" ELSE "GET"

AllowList(handler) ==
    CASE handler = "createUser" -> <<"Admin", "SuperAdmin">>
      [] handler = "getUserInfo" -> <<"Admin">>
      [] handler = "listUsers" -> <<"SuperAdmin">>
      [] OTHER -> <<>>

\* Invocation i is a request to a protected handler with its accepted method.
ProtectedCall(i) ==
    /\ Started(i)
    /\ inv[i].handler \in ProtectedHandlers
    /\ inv[i].event.httpMethod = AcceptedMethod(inv[i].handler)

Credential(i) == AuthorizationOf(inv[i].event)

\* C2: a request to a protected handler whose Authorization header is absent or
\* does not start with "Bearer " is rejected by the policy with the
\* no-valid-authorization-token error under every allowed-role list, is answered
\* 401 "Authentication required", and sends no gateway command.
C2_NoBearerIs401 ==
    \A i \in Invs :
        (ProtectedCall(i) /\ ~HasBearer(Credential(i))) =>
            /\ \A roles \in PolicyRoleLists :
                   validateTokenAndRole(Credential(i), roles)
                   = [isValid |-> FALSE, error |-> NoTokenMessage]
            /\ Done(i)
            /\ inv[i].response.statusCode = 401
            /\ inv[i].response.body.message = "Authentication required"
            /\ inv[i].sent = <<>>

C2_Witness ==
    \E i \in Invs :
        /\ ProtectedCall(i)
        /\ inv[i].handler = "listUsers"
        /\ Credential(i) = TokenFor(SegAdmin)
        /\ inv[i].response.statusCode = 401

\* The policy rejects the credential of invocation i as "Invalid token format".
UndecodableToken(i) ==
    /\ ProtectedCall(i)
    /\ HasBearer(Credential(i))
    /\ validateTokenAndRole(Credential(i), AllowList(inv[i].handler))
       = [isValid |-> FALSE, error |-> InvalidTokenMessage]

Granted(i) ==
    \/ inv[i].pc \in {"awaitCreate", "awaitSetPassword", "awaitList"}
    \/ Done(i) /\ inv[i].response.statusCode \notin {401, 403, 405}
               /\ inv[i].event.httpMethod # "OPTIONS"

RoleClaim(header) ==
    GetProp(decodeJWTPayload(TokenOf(header)).val, "custom:user_role").val

\* C6: a token that resolves to claims whose custom:user_role is absent or empty
\* has the resolved role "User", and create-user, get-own-info and list-users
\* answer it 403.
C6_MissingRoleIsUser ==
    \A i \in Invs :
        (/\ ProtectedCall(i)
         /\ Resolves(Credential(i))
         /\ RoleClaim(Credential(i)) \in {Undefined, ""})
        => /\ ResolvedRole(Credential(i)) = "User"
           /\ validateTokenAndRole(Credential(i), <<>>).user.role = "User"
           /\ Done(i)
           /\ inv[i].response.statusCode = 403

C6_Witness ==
    \E i \in Invs :
        /\ ProtectedCall(i)
        /\ inv[i].handler = "listUsers"
        /\ Credential(i) = Bearer(<<SegAlg, SegEmptyRole, SegSignature>>)
        /\ inv[i].response.statusCode = 403

\* C9: every handler answers OPTIONS with 200, the body {success: true, message:
\* "CORS preflight successful"} and Access-Control-Allow-Origin "*", whatever the
\* headers and the body, having run no auth check, no validation and no gateway
\* command.
C9_OptionsIsPreflight ==
    \A i \in Invs :
        (Started(i) /\ inv[i].event.httpMethod = "OPTIONS") =>
            /\ Done(i)
            /\ inv[i].response.statusCode = 200
            /\ inv[i].response.body
               = [success |-> TRUE, message |-> "CORS preflight successful"]
            /\ inv[i].response.headers.AccessControlAllowOrigin = "*"
            /\ inv[i].trace = <<"method">>
            /\ inv[i].sent = <<>>

C9_Witness ==
    \E i \in Invs :
        /\ Started(i)
        /\ inv[i].handler = "createUser"
        /\ inv[i].event.httpMethod = "OPTIONS"
        /\ ~HasBearer(Credential(i))
        /\ ~validateAndParseJSON(inv[i].event.body).isValid
        /\ inv[i].response.statusCode = 200

\* The checks of each handler, in the order the claim gives.
CheckOrder(handler) ==
    CASE handler = "login" -> <<"method", "parse", "validate", "remote">>
      [] handler = "createUser" -> <<"method", "auth", "parse", "validate", "remote">>
      [] handler = "getUserInfo" -> <<"method", "auth">>
      [] handler = "listUsers" -> <<"method", "auth", "remote">>

\* Whether a check passes on a request, each taken alone.
Passes(check, handler, event) ==
    CASE check = "method" -> event.httpMethod = AcceptedMethod(handler)
      [] check = "auth" ->
            validateTokenAndRole(AuthorizationOf(event), AllowList(handler)).isValid
      [] check = "parse" -> validateAndParseJSON(event.body).isValid
      [] check = "validate" ->
            /\ validateAndParseJSON(event.body).isValid
            /\ LET data == validateAndParseJSON(event.body).data
                   result == IF handler = "login" THEN validateLoginRequest(data)
                             ELSE validateCreateUserRequest(data)
               IN ~result.threw /\ result.val.isValid
      [] OTHER -> TRUE

\* The position in the handler's order of the first check the request fails (of
\* the remote call, when it fails none).
FirstFailing(handler, event) ==
    LET order == CheckOrder(handler)
        failing == {k \in 1..Len(order) : ~Passes(order[k], handler, event)}
    IN IF failing = {} THEN Len(order)
       ELSE CHOOSE k \in failing : \A j \in failing : k <= j

\* C10: the checks of an invocation run in the order method, auth (protected
\* handlers), body parse, field validation, remote call, up to the first one that
\* fails, which alone determines the response: a wrong method is answered 405
\* whatever the credentials, an auth failure 401 or 403 whatever the body, an
\* unparsable body 400; a gateway command is sent only when every check passed.
C10_FirstFailingCheckDecides ==
    \A i \in Invs :
        Started(i) =>
            LET handler == inv[i].handler
                event == inv[i].event
                order == CheckOrder(handler)
                last == order[FirstFailing(handler, event)]
            IN /\ inv[i].trace = SubSeq(order, 1, FirstFailing(handler, event))
               /\ inv[i].sent # <<>> <=>
                     /\ order[Len(order)] = "remote"
                     /\ \A k \in 1..Len(order) : Passes(order[k], handler, event)
               /\ (last = "method" /\ event.httpMethod # "OPTIONS") =>
                     Done(i) /\ inv[i].response.statusCode = 405
               /\ (last = "auth" /\ ~Passes("auth", handler, event)) =>
                     Done(i) /\ inv[i].response.statusCode \in {401, 403}
               /\ last = "parse" =>
                     Done(i) /\ inv[i].response.statusCode = 400
               /\ last = "validate" =>
                     Done(i) /\ ~inv[i].response.body.success

C10_Witness ==
    \E i \in Invs :
        /\ Started(i)
        /\ inv[i].handler = "createUser"
        /\ inv[i].event.httpMethod = "POST"
        /\ ~Passes("auth", "createUser", inv[i].event)
        /\ ~Passes("parse", "createUser", inv[i].event)
        /\ inv[i].response.statusCode = 403

(***************************************************************************)
(* Properties of the responses (Spec)                                      *)
(***************************************************************************)
\* The header names of the Access-Control-Allow-Headers value.
AllowedHeaderNames ==
    <<"Content-Type", "X-Amz-Date", "Authorization", "X-Api-Key", "X-Amz-Security-Token">>

\* names.join(',')
RECURSIVE JoinNames(_)
JoinNames(names) ==
    IF Len(names) = 0 THEN ""
    ELSE IF Len(names) = 1 THEN names[1]
    ELSE names[1] \o "," \o JoinNames(Tail(names))

MethodLists == {"GET,POST,OPTIONS", "POST,OPTIONS", "GET,OPTIONS"}

\* C11: every response a handler returns, success or error, carries the headers
\* Content-Type application/json, Access-Control-Allow-Origin "*",
\* Access-Control-Allow-Headers (a list with Authorization in it) and
\* Access-Control-Allow-Methods; and building a response again from the same
\* status, body and methods gives the same response.
C11_EveryResponseHasCorsHeaders ==
    \A i \in Invs :
        Done(i) =>
            LET response == inv[i].response
                headers == response.headers
            IN /\ DOMAIN headers = {"ContentType", "AccessControlAllowOrigin",
                                    "AccessControlAllowHeaders", "AccessControlAllowMethods"}
               /\ headers.ContentType = "application/json"
               /\ headers.AccessControlAllowOrigin = "*"
               /\ headers.AccessControlAllowHeaders = JoinNames(AllowedHeaderNames)
               /\ "Authorization" \in Range(AllowedHeaderNames)
               /\ headers.AccessControlAllowMethods \in MethodLists
               /\ createResponse(response.statusCode, response.body,
                                 headers.AccessControlAllowMethods) = response

C11_Witness ==
    \E i \in Invs :
        /\ Done(i)
        /\ inv[i].handler = "listUsers"
        /\ inv[i].sent = <<"ListUsers">>
        /\ inv[i].response.statusCode = 500
        /\ inv[i].response.headers.AccessControlAllowOrigin = "*"

\* C12: every response body is an envelope with a boolean success and a message;
\* a body with success = false also carries an error string; success is true
\* exactly for the responses with status 200 or 201.
C12_EnvelopeOnEveryResponse ==
    \A i \in Invs :
        Done(i) =>
            LET body == inv[i].response.body IN
            /\ {"success", "message"} \subseteq DOMAIN body
            /\ body.success \in BOOLEAN
            /\ body.message # Undefined
            /\ ~body.success => ("error" \in DOMAIN body /\ body.error # Undefined)
            /\ body.success <=> inv[i].response.statusCode \in {200, 201}

C12_Witness ==
    \E i \in Invs :
        /\ Done(i)
        /\ inv[i].handler = "login"
        /\ inv[i].sent = <<"AdminInitiateAuth">>
        /\ inv[i].response.statusCode = 401
        /\ inv[i].response.body.error = "ID token not received"

(***************************************************************************)
(* Properties of the composite validators (SpecValidate)                   *)
(***************************************************************************)
Validated == validationResult # Pending

\* The value a body holds in a field, Undefined when it has none.
FieldOf(body, field) ==
    IF body.kind = "object" /\ field \in DOMAIN body.obj THEN body.obj[field]
    ELSE Undefined

Missing(body, field) == FieldOf(body, field) \in {Undefined, ""}

\* The fields each validator requires, in the order the claim gives.
RequiredOrder(name) ==
    IF name = "login" THEN <<"email", "password">>
    ELSE <<"email", "firstName", "lastName", "role", "temporaryPassword">>

WellFormedEmails == {"admin@x.io", "new@x.io"}

\* The error the claim gives for a body: of the first missing field of the
\* order, then of the email format, then (create-user) of the role enumeration,
\* then of the password length; "" when no check fails.
ExpectedError(name, body) ==
    LET order == RequiredOrder(name)
        missing == {k \in 1..Len(order) : Missing(body, order[k])}
    IN IF missing # {}
       THEN order[CHOOSE k \in missing : \A j \in missing : k <= j] \o " is required"
       ELSE IF FieldOf(body, "email") \notin WellFormedEmails THEN "Invalid email format"
       ELSE IF name = "login" THEN ""
       ELSE IF FieldOf(body, "role") \notin {"Admin", "SuperAdmin", "User"}
            THEN "Role must be one of: Admin, SuperAdmin, User"
       ELSE IF Len(FieldOf(body, "temporaryPassword")) < 8
            THEN "Password must be at least 8 characters long"
       ELSE ""

\* C13: the composite validators report the first failing check of a fixed
\* order and only that one: the first missing or falsy required field in the
\* declared order, then the email format, then (create-user) the role
\* enumeration, then the password length; a body failing none is valid.
C13_FirstFailingCheckReported ==
    (Validated /\ requestBody.kind = "object") =>
        /\ ~validationResult.threw
        /\ validationResult.val.isValid <=> ExpectedError(validator, requestBody) = ""
        /\ ~validationResult.val.isValid =>
              validationResult.val.error = ExpectedError(validator, requestBody)

\* A body without email and without temporaryPassword: the error names email.
C13_Witness ==
    /\ Validated
    /\ validator = "createUser"
    /\ requestBody.kind = "object"
    /\ Missing(requestBody, "email")
    /\ Missing(requestBody, "temporaryPassword")
    /\ FieldOf(requestBody, "role") = "Guest"
    /\ validationResult.val.error = "email is required"

(***************************************************************************)
(* Properties of the error handling (Spec)                                 *)
(***************************************************************************)
\* Invocation i reached the body checks: a POST to login, or a POST to
\* create-user whose auth check passed.
ReachedBodyChecks(i) ==
    /\ Started(i)
    /\ inv[i].handler \in {"login", "createUser"}
    /\ inv[i].event.httpMethod = "POST"
    /\ inv[i].handler = "createUser" => Passes("auth", "createUser", inv[i].event)

\* The body is absent, is not parsable JSON, or parses to a value that lacks a
\* field the handler requires.
BadBody(handler, text) ==
    LET parseResult == validateAndParseJSON(text) IN
    \/ ~parseResult.isValid
    \/ \E k \in 1..Len(RequiredOrder(handler)) :
          Missing(parseResult.data, RequiredOrder(handler)[k])

\* C14 as stated: in login, and in create-user once the auth check has passed,
\* a request whose body is absent, is not parsable JSON, or parses to a value
\* lacking a required field is answered 400 "Validation failed" and no gateway
\* command is sent.
C14_BadBodyIs400 ==
    \A i \in Invs :
        (ReachedBodyChecks(i) /\ BadBody(inv[i].handler, inv[i].event.body)) =>
            /\ Done(i)
            /\ inv[i].response.statusCode = 400
            /\ inv[i].response.body.message = "Validation failed"
            /\ inv[i].sent = <<>>

\* The same for every body but the JSON text null (kept to see that null is the
\* only body of the inputs on which the statement fails).
C14_BadBodyButNullIs400 ==
    \A i \in Invs :
        (/\ ReachedBodyChecks(i)
         /\ BadBody(inv[i].handler, inv[i].event.body)
         /\ inv[i].event.body # <<"null">>) =>
            /\ Done(i)
            /\ inv[i].response.statusCode = 400
            /\ inv[i].response.body.message = "Validation failed"
            /\ inv[i].sent = <<>>

\* The last reply invocation i got was a failure of the gateway.
GatewayFailed(i) ==
    /\ Done(i)
    /\ inv[i].replies # <<>>
    /\ inv[i].replies[Len(inv[i].replies)].threw

FailureName(i) == inv[i].replies[Len(inv[i].replies)].name

SignInFailures ==
    {"NotAuthorizedException", "UserNotConfirmedException",
     "PasswordResetRequiredException", "UserNotFoundException"}

Answered(i, status, message) ==
    /\ inv[i].response.statusCode = status
    /\ inv[i].response.body.message = message

\* C15: create-user maps a gateway failure by its name: UsernameExists to 409
\* "Conflict", InvalidPassword and InvalidParameter to 400 "Validation failed",
\* TooManyRequests to 429 "Too many requests", every other failure (the sign-in
\* names included) to 500 "Internal server error".
C15_CreateUserFailureMapping ==
    \A i \in Invs :
        (GatewayFailed(i) /\ inv[i].handler = "createUser") =>
            LET name == FailureName(i) IN
            /\ name = "UsernameExistsException" => Answered(i, 409, "Conflict")
            /\ name \in {"InvalidPasswordException", "InvalidParameterException"} =>
                  Answered(i, 400, "Validation failed")
            /\ name = "TooManyRequestsException" => Answered(i, 429, "Too many requests")
            /\ name \notin {"UsernameExistsException", "InvalidPasswordException",
                            "InvalidParameterException", "TooManyRequestsException"} =>
                  Answered(i, 500, "Internal server error")

C15_Witness ==
    \E i \in Invs :
        /\ GatewayFailed(i)
        /\ inv[i].handler = "createUser"
        /\ FailureName(i) = "UsernameExistsException"
        /\ inv[i].request.email \in DOMAIN directory
        /\ Answered(i, 409, "Conflict")

\* C16: login maps the gateway failures NotAuthorized, UserNotConfirmed,
\* PasswordResetRequired and UserNotFound to 401 "Authentication required",
\* TooManyRequests to 429 and every other failure to 500; list-users answers
\* those four names with 500.
C16_LoginFailureMapping ==
    \A i \in Invs :
        /\ (GatewayFailed(i) /\ inv[i].handler = "login") =>
              LET name == FailureName(i) IN
              /\ name \in SignInFailures => Answered(i, 401, "Authentication required")
              /\ name = "TooManyRequestsException" => inv[i].response.statusCode = 429
              /\ name \notin SignInFailures \cup {"TooManyRequestsException"} =>
                    inv[i].response.statusCode = 500
        /\ (GatewayFailed(i) /\ inv[i].handler = "listUsers") =>
              (FailureName(i) \in SignInFailures => inv[i].response.statusCode = 500)

C16_Witness ==
    \E i \in Invs :
        /\ GatewayFailed(i)
        /\ inv[i].handler = "login"
        /\ FailureName(i) = "UserNotConfirmedException"
        /\ inv[i].request.email \in DOMAIN directory
        /\ Answered(i, 401, "Authentication required")
        /\ inv[i].response.body.error = "User account not confirmed"

\* The messages the code defines for its responses.
LocalMessages ==
    {"Only GET method is supported", "Only POST method is supported",
     NoTokenMessage, InvalidTokenMessage,
     "Request body is required", "Invalid JSON format",
     "Email is required", "Invalid email format",
     "Password is required", "Password must be at least 8 characters long",
     "Role is required", "Role must be one of: Admin, SuperAdmin, User",
     "ID token not received", "Please try again later", "An unexpected error occurred"}
    \cup {AccessDeniedMessage(AllowList(h)) : h \in ProtectedHandlers}
    \cup {CreateUserFields[k] \o " is required" : k \in 1..Len(CreateUserFields)}
    \cup {LoginFields[k] \o " is required" : k \in 1..Len(LoginFields)}

MappedMessages == {errorMap[name] : name \in DOMAIN errorMap}

\* C17 as stated: the error string of every response is a locally defined
\* message or a message of the name-to-message map, never the raw message of a
\* caught exception; an exception that is not classified gives the generic 500.
C17_NoRawExceptionMessage ==
    \A i \in Invs :
        (Done(i) /\ ~inv[i].response.body.success) =>
            /\ inv[i].response.body.error \in LocalMessages \cup MappedMessages
            /\ (GatewayFailed(i) /\ FailureName(i) \notin DOMAIN errorMap) =>
                  /\ Answered(i, 500, "Internal server error")
                  /\ inv[i].response.body.error = "An unexpected error occurred"

\* The token of invocation i decodes to the JSON value null.
NullPayload(i) ==
    /\ HasBearer(Credential(i))
    /\ ~decodeJWTPayload(TokenOf(Credential(i))).threw
    /\ decodeJWTPayload(TokenOf(Credential(i))).val.kind = "null"

\* The same for every request but those whose token decodes to null (kept to
\* see that such tokens are the only inputs on which the statement fails).
C17_NoRawMessageButNullPayload ==
    \A i \in Invs :
        (Done(i) /\ ~inv[i].response.body.success /\ ~NullPayload(i)) =>
            /\ inv[i].response.body.error \in LocalMessages \cup MappedMessages
            /\ (GatewayFailed(i) /\ FailureName(i) \notin DOMAIN errorMap) =>
                  /\ Answered(i, 500, "Internal server error")
                  /\ inv[i].response.body.error = "An unexpected error occurred"

(***************************************************************************)
(* Termination (SpecLive)                                                  *)
(***************************************************************************)
\* C18: every invocation, whatever the request and whatever the gateway
\* answers, ends by returning a response, and it returns one only: a returned
\* response is not replaced.  No invocation ends without a response.
C18_EveryInvocationReturns ==
    /\ \A i \in Invs : Started(i) ~> Done(i)
    /\ [][\A i \in Invs : Done(i) => (inv'[i] = inv[i] \/ inv'[i] = IdleInv)]_vars

C18_Witness ==
    \E i \in Invs :
        /\ GatewayFailed(i)
        /\ inv[i].handler = "createUser"
        /\ inv[i].sent = <<"AdminCreateUser", "AdminSetUserPassword">>
        /\ FailureName(i) = "InternalErrorException"
        /\ Answered(i, 500, "Internal server error")

(***************************************************************************)
(* Gateway commands of an invocation (Spec)                                *)
(***************************************************************************)
\* The gateway commands of each handler, in the order it sends them.
Commands(handler) ==
    CASE handler = "login" -> <<"AdminInitiateAuth">>
      [] handler = "createUser" -> <<"AdminCreateUser", "AdminSetUserPassword">>
      [] handler = "listUsers" -> <<"ListUsers">>
      [] OTHER -> <<>>

\* C19: no retries.  Within one invocation each gateway command is sent at most
\* once (the commands sent are a prefix of the handler's commands), and a
\* command that failed is the last one sent: its failure is the last reply and
\* the invocation has returned its error response.
C19_NoRetries ==
    \A i \in Invs :
        Started(i) =>
            LET sent == inv[i].sent
                replies == inv[i].replies
            IN /\ Len(sent) <= Len(Commands(inv[i].handler))
               /\ sent = SubSeq(Commands(inv[i].handler), 1, Len(sent))
               /\ Len(replies) <= Len(sent)
               /\ \A k \in 1..Len(replies) :
                     replies[k].threw =>
                        /\ k = Len(replies)
                        /\ Len(sent) = k
                        /\ Done(i)
                        /\ ~inv[i].response.body.success

C19_Witness ==
    \E i \in Invs :
        /\ GatewayFailed(i)
        /\ inv[i].handler = "createUser"
        /\ FailureName(i) = "TooManyRequestsException"
        /\ inv[i].sent = <<"AdminCreateUser">>
        /\ inv[i].response.statusCode = 429

(***************************************************************************)
(* Independence of concurrent invocations (SpecConcurrent)                 *)
(***************************************************************************)
\* C20: invocations are independent.  Under every interleaving of concurrent
\* invocations the response of each one is the response its handler computes
\* from its own request and the gateway replies it got itself, and a step of
\* one invocation leaves the state of every other invocation as it was.
C20_InvocationsIndependent ==
    /\ [](\A i \in Invs :
            Done(i) =>
                inv[i].response
                = ResponseFrom(inv[i].handler, inv[i].event, inv[i].replies))
    /\ [][\A i, j \in Invs :
            (i # j /\ inv'[i] # inv[i]) => inv'[j] = inv[j]]_vars

\* Two invocations were in flight together: one created a user while the other
\* listed the users, and both have returned.
C20_Witness ==
    \E i, j \in Invs :
        /\ i # j
        /\ Done(i)
        /\ inv[i].handler = "createUser"
        /\ inv[i].response.statusCode = 201
        /\ Done(j)
        /\ inv[j].handler = "listUsers"
        /\ inv[j].response.statusCode = 200
        /\ inv[j].response.body.data.totalUsers = 1

(***************************************************************************)
(* Results of the handlers (Spec)                                          *)
(***************************************************************************)
\* The claims of the token of invocation i, and one of them ("" for a name the
\* token does not carry).
ClaimsOf(i) == decodeJWTPayload(TokenOf(Credential(i))).val

ClaimOrEmpty(claims, name) ==
    IF name \in DOMAIN claims.obj THEN claims.obj[name] ELSE ""

\* C21: get-own-info with an accepted Admin token answers 200 with
\* data.user.email and data.user.role equal to the token's claims and firstName
\* and lastName equal to the given_name and family_name claims, "" when the
\* token has none; on no path does it send a gateway command.
C21_OwnInfoFromClaims ==
    \A i \in Invs :
        (Started(i) /\ inv[i].handler = "getUserInfo") =>
            /\ Done(i)
            /\ inv[i].sent = <<>>
            /\ inv[i].replies = <<>>
            /\ (/\ inv[i].event.httpMethod = "GET"
                /\ Passes("auth", "getUserInfo", inv[i].event)) =>
                  /\ inv[i].response.statusCode = 200
                  /\ inv[i].response.body.data.user
                     = [email |-> ClaimsOf(i).obj.email,
                        role |-> ClaimsOf(i).obj["custom:user_role"],
                        firstName |-> ClaimOrEmpty(ClaimsOf(i), "given_name"),
                        lastName |-> ClaimOrEmpty(ClaimsOf(i), "family_name")]
                  /\ inv[i].response.body.data.user.role = "Admin"

C21_Witness ==
    \E i \in Invs :
        /\ Done(i)
        /\ inv[i].handler = "getUserInfo"
        /\ inv[i].event.httpMethod = "GET"
        /\ Credential(i) = Bearer(<<SegAlg, SegAdminBare, SegSignature>>)
        /\ inv[i].response.statusCode = 200
        /\ inv[i].response.body.data.user.firstName = ""

\* Invocation i got a reply, not a failure, to its only gateway command.
RepliedTo(i, handler) ==
    /\ Started(i)
    /\ inv[i].handler = handler
    /\ Len(inv[i].replies) = 1
    /\ ~inv[i].replies[1].threw

\* The users of a reply to ListUsers: none when it carries no list.
UsersOf(reply) == IF "Users" \in DOMAIN reply.val THEN reply.val.Users ELSE <<>>

\* C22: list-users with an accepted SuperAdmin token and a reply of the gateway
\* answers 200 with data.users equal to the gateway's list and data.totalUsers
\* equal to its length; the message is "No users found" exactly when the list is
\* empty (also when the reply carries no list), "Users retrieved successfully"
\* otherwise.
C22_ListIsGatewaysList ==
    \A i \in Invs :
        RepliedTo(i, "listUsers") =>
            LET users == UsersOf(inv[i].replies[1])
                body == inv[i].response.body
            IN /\ Done(i)
               /\ ResolvedRole(Credential(i)) = "SuperAdmin"
               /\ inv[i].response.statusCode = 200
               /\ body.data.users = users
               /\ body.data.totalUsers = Len(users)
               /\ body.message = "No users found" <=> users = <<>>
               /\ body.message = "Users retrieved successfully" <=> users # <<>>

C22_Witness ==
    \E i \in Invs :
        /\ RepliedTo(i, "listUsers")
        /\ inv[i].replies[1].val = EmptyReply
        /\ inv[i].response.body.message = "No users found"
        /\ inv[i].response.body.data.totalUsers = 0

\* Both gateway commands of create-user invocation i were answered without a
\* failure, the first with a User.
CreateSucceeded(i) ==
    /\ Started(i)
    /\ inv[i].handler = "createUser"
    /\ Len(inv[i].replies) = 2
    /\ ~inv[i].replies[1].threw
    /\ "User" \in DOMAIN inv[i].replies[1].val
    /\ ~inv[i].replies[2].threw

\* The fields of the body of invocation i.
BodyOf(i) == validateAndParseJSON(inv[i].event.body).data

\* C23: create-user with an accepted Admin or SuperAdmin token, a valid body and
\* a successful gateway call answers 201 with data.email, firstName, lastName
\* and role equal to the fields of the request, and data.userId and data.status
\* equal to the values of the reply to the create step: the status is the one
\* before the permanent password was set.  It answers 201 in no other case.
C23_CreatedUserEchoesRequest ==
    \A i \in Invs :
        /\ CreateSucceeded(i) =>
              LET data == inv[i].response.body.data
                  created == inv[i].replies[1].val.User
              IN /\ Done(i)
                 /\ ResolvedRole(Credential(i)) \in {"Admin", "SuperAdmin"}
                 /\ Passes("validate", "createUser", inv[i].event)
                 /\ inv[i].response.statusCode = 201
                 /\ data.email = FieldOf(BodyOf(i), "email")
                 /\ data.firstName = FieldOf(BodyOf(i), "firstName")
                 /\ data.lastName = FieldOf(BodyOf(i), "lastName")
                 /\ data.role = FieldOf(BodyOf(i), "role")
                 /\ data.userId = created.Username
                 /\ data.status = created.UserStatus
                 /\ data.status = "FORCE_CHANGE_PASSWORD"
        /\ (Done(i) /\ inv[i].response.statusCode = 201) => CreateSucceeded(i)

C23_Witness ==
    \E i \in Invs :
        /\ CreateSucceeded(i)
        /\ ResolvedRole(Credential(i)) = "SuperAdmin"
        /\ inv[i].response.statusCode = 201
        /\ inv[i].response.body.data.role = "User"
        /\ directory[inv[i].response.body.data.email].status = "CONFIRMED"

\* C24: login reads no Authorization header: whatever the headers, a POST with a
\* valid body is sent to the gateway.  For a reply with an ID token it answers
\* 200 with the three tokens of the reply and a user record read from the claims
\* of the ID token, firstName and lastName "" and role "User" when the token has
\* none; for a reply without ID token it answers 401 "Authentication required"
\* with the error "ID token not received".
C24_LoginResult ==
    \A i \in Invs :
        (Started(i) /\ inv[i].handler = "login") =>
            /\ (/\ inv[i].event.httpMethod = "POST"
                /\ Passes("validate", "login", inv[i].event)) =>
                  inv[i].sent = <<"AdminInitiateAuth">>
            /\ (/\ RepliedTo(i, "login")
                /\ "AuthenticationResult" \in DOMAIN inv[i].replies[1].val) =>
                  LET result == inv[i].replies[1].val.AuthenticationResult
                      claims == decodeJWTPayload(result.IdToken).val
                      body == inv[i].response.body
                  IN /\ Done(i)
                     /\ ~TruthyText(result.IdToken) =>
                           /\ Answered(i, 401, "Authentication required")
                           /\ body.error = "ID token not received"
                     /\ TruthyText(result.IdToken) =>
                           /\ inv[i].response.statusCode = 200
                           /\ body.data.accessToken = result.AccessToken
                           /\ body.data.idToken = result.IdToken
                           /\ body.data.refreshToken = result.RefreshToken
                           /\ body.data.user
                              = [email |-> claims.obj.email,
                                 firstName |-> ClaimOrEmpty(claims, "given_name"),
                                 lastName |-> ClaimOrEmpty(claims, "family_name"),
                                 role |-> IF "custom:user_role" \in DOMAIN claims.obj
                                          THEN claims.obj["custom:user_role"]
                                          ELSE "User"]

C24_Witness ==
    \E i \in Invs :
        /\ RepliedTo(i, "login")
        /\ inv[i].event.headers = NoHeaders
        /\ inv[i].response.statusCode = 200
        /\ inv[i].response.body.data.user.role = "User"
        /\ inv[i].response.body.data.user.firstName = ""
        /\ directory[inv[i].request.email].role = "SuperAdmin"

(***************************************************************************)
(* The name of the Authorization header (Spec)                             *)
(***************************************************************************)
\* Capitalisations of the header's name a request may use.
CasingsOfAuthorization == {"Authorization", "authorization", "AUTHORIZATION"}

\* The credential a request carries under whatever capitalisation of the name.
CarriedCredential(event) ==
    IF \E n \in CasingsOfAuthorization : TruthyText(Header(event, n))
    THEN LET named == {n \in CasingsOfAuthorization : TruthyText(Header(event, n))}
         IN Header(event, IF "Authorization" \in named THEN "Authorization"
                          ELSE CHOOSE n \in named : TRUE)
    ELSE NoString

\* C25: a protected handler called with its accepted method lets the request
\* through exactly when the credential it carries, under any capitalisation of
\* the header's name, is one the policy accepts for the handler's allow-list.
C25_AnyCasingAuthenticated ==
    \A i \in Invs :
        ProtectedCall(i) =>
            (Granted(i) <=>
                validateTokenAndRole(CarriedCredential(inv[i].event),
                                     AllowList(inv[i].handler)).isValid)

\* What holds of the code: the same for the names Authorization and
\* authorization, the two the handlers read.
C25_ReadCasingsAuthenticated ==
    \A i \in Invs :
        (ProtectedCall(i) /\ "AUTHORIZATION" \notin DOMAIN inv[i].event.headers) =>
            /\ CarriedCredential(inv[i].event) = Credential(i)
            /\ Granted(i) <=>
                  validateTokenAndRole(CarriedCredential(inv[i].event),
                                       AllowList(inv[i].handler)).isValid

\* A valid Admin credential under the name AUTHORIZATION is answered 401.
C25_UpperCaseRejected ==
    \E i \in Invs :
        /\ ProtectedCall(i)
        /\ inv[i].handler = "getUserInfo"
        /\ "AUTHORIZATION" \in DOMAIN inv[i].event.headers
        /\ validateTokenAndRole(inv[i].event.headers["AUTHORIZATION"],
                                AllowList("getUserInfo")).isValid
        /\ Done(i)
        /\ Answered(i, 401, "Authentication required")

(***************************************************************************)
(* Bootstrap (Spec): the directory starts empty and only create-user adds   *)
(* to it, so no state of Spec has a user created outside the API.          *)
(***************************************************************************)
\* C26: starting from an empty directory, no request to the four handlers gets
\* a user created: as long as no Admin or SuperAdmin was created outside the
\* API, create-user never answers 201 and the directory stays empty.
C26_NoCreationBeforeBootstrap ==
    /\ DOMAIN directory = {}
    /\ \A i \in Invs :
           (Started(i) /\ inv[i].handler = "createUser" /\ Done(i)) =>
               inv[i].response.statusCode # 201

\* The first user of the directory, created on the word of a token whose
\* subject is no user of the directory.
C26_CreatedByUnknownCaller ==
    \E i \in Invs :
        /\ CreateSucceeded(i)
        /\ Done(i)
        /\ inv[i].response.statusCode = 201
        /\ DOMAIN directory = {BodyOf(i).obj.email}
        /\ ClaimsOf(i).obj.email \notin DOMAIN directory

(***************************************************************************)
(* What create-user sends to the gateway (Spec)                            *)
(***************************************************************************)
\* Invocation i of create-user has sent a user to the gateway.
SentUser(i) ==
    /\ Started(i)
    /\ inv[i].handler = "createUser"
    /\ inv[i].sent # <<>>

\* C27: every user create-user sends to the gateway has a role of Admin,
\* SuperAdmin, User, an email of the form local@domain.tld, a non-empty
\* firstName and lastName, and a temporary password that is a text of at least 8
\* characters.
C27_SentUserIsValid ==
    \A i \in Invs :
        SentUser(i) =>
            LET request == inv[i].request IN
            /\ request.role \in {"Admin", "SuperAdmin", "User"}
            /\ emailRegexTest(request.email)
            /\ Truthy(request.firstName)
            /\ Truthy(request.lastName)
            /\ IsString(request.temporaryPassword)
            /\ Len(request.temporaryPassword) >= MinPasswordLength

\* What holds of the code: the same, the password being of 8 characters at
\* least only when it is a text.
C27_SentUserIsValidButPasswordType ==
    \A i \in Invs :
        SentUser(i) =>
            LET request == inv[i].request IN
            /\ request = [f \in {"email", "firstName", "lastName", "role",
                                 "temporaryPassword"} |-> BodyOf(i).obj[f]]
            /\ request.role \in {"Admin", "SuperAdmin", "User"}
            /\ emailRegexTest(request.email)
            /\ Truthy(request.firstName)
            /\ Truthy(request.lastName)
            /\ Truthy(request.temporaryPassword)
            /\ IsString(request.temporaryPassword) =>
                  Len(request.temporaryPassword) >= MinPasswordLength

\* The number 1234 stored as a user's password.
C27_NumberAsPassword ==
    \E i \in Invs :
        /\ SentUser(i)
        /\ Done(i)
        /\ inv[i].response.statusCode = 201
        /\ ~IsString(directory[inv[i].request.email].password)

(***************************************************************************)
(* create-user and the directory (Spec).  Nothing removes a user, so the   *)
(* user an invocation added is in the directory for good.                  *)
(***************************************************************************)
\* Invocation i added a user to the directory: its create step succeeded.
AddedUser(i) ==
    /\ "createdUser" \in DOMAIN inv[i]
    /\ inv[i].request.email \in DOMAIN directory

\* C28: a create-user invocation that answers something else than 201 has added
\* no user to the directory, also when the permanent password could not be set
\* after the create step succeeded.
C28_AllOrNothing ==
    \A i \in Invs :
        (Started(i) /\ inv[i].handler = "createUser" /\ Done(i)
            /\ inv[i].response.statusCode # 201) =>
            ~AddedUser(i)

\* What holds of the code: an invocation whose create step did not succeed has
\* added no user.
C28_NothingWhenCreateFails ==
    \A i \in Invs :
        (Started(i) /\ inv[i].handler = "createUser" /\ Done(i)
            /\ Len(inv[i].replies) < 2) =>
            /\ inv[i].response.statusCode # 201
            /\ ~AddedUser(i)

\* The user left behind: the set-password step failed, the answer is 500 and the
\* user is in the directory with the temporary password.
C28_UserLeftBehind ==
    \E i \in Invs :
        /\ Started(i) /\ inv[i].handler = "createUser" /\ Done(i)
        /\ Len(inv[i].replies) = 2
        /\ inv[i].replies[2].threw
        /\ inv[i].response.statusCode = 500
        /\ AddedUser(i)
        /\ directory[inv[i].request.email].status = "FORCE_CHANGE_PASSWORD"

(***************************************************************************)
(* Concurrent create-user requests for one email (SpecConcurrent)          *)
(***************************************************************************)
\* The gateway answered invocation i as a gateway does whose create step is
\* atomic and rejects an existing username: it failed no command for another
\* reason, and its reply to the create step carries the user.
GatewayAsPremised(i) ==
    \A k \in 1..Len(inv[i].replies) :
        LET reply == inv[i].replies[k] IN
        IF reply.threw THEN reply.name = "UsernameExistsException"
        ELSE k = 1 => "User" \in DOMAIN reply.val

C30_AdminCreatesSuperAdmin ==
    \A i \in Invs :
        (ProtectedCall(i) /\ inv[i].handler = "createUser"
            /\ Passes("auth", "createUser", inv[i].event)
            /\ Passes("validate", "createUser", inv[i].event)) =>
            /\ SentUser(i)
            /\ inv[i].request.role = BodyOf(i).obj.role
            /\ (/\ CreateSucceeded(i)
                /\ ResolvedRole(Credential(i)) = "Admin"
                /\ BodyOf(i).obj.role = "SuperAdmin") =>
                  LET email == inv[i].request.email IN
                  /\ Done(i)
                  /\ inv[i].response.statusCode = 201
                  /\ inv[i].response.body.data.role = "SuperAdmin"
                  /\ directory[email].role = "SuperAdmin"
                  /\ validateTokenAndRole(<<BearerPrefix>> \o IdTokenOf(email),
                                          AllowList("listUsers")).isValid

\* An Admin created a SuperAdmin (201), and a login as that user was answered
\* 200 with an ID token that the policy of list-users accepts, while the
\* Admin's own token is refused there.
C30_Witness ==
    \E i, j \in Invs :
        /\ CreateSucceeded(i) /\ Done(i)
        /\ inv[i].response.statusCode = 201
        /\ ResolvedRole(Credential(i)) = "Admin"
        /\ ~validateTokenAndRole(Credential(i), AllowList("listUsers")).isValid
        /\ RepliedTo(j, "login") /\ Done(j)
        /\ inv[j].response.statusCode = 200
        /\ inv[j].request.email = inv[i].request.email
        /\ inv[j].response.body.data.user.role = "SuperAdmin"
        /\ validateTokenAndRole(<<BearerPrefix>> \o inv[j].response.body.data.idToken,
                                AllowList("listUsers")).isValid

====
